---- MODULE Spec2Model ----
(***************************************************************************)
(* Session lifecycle, metering, idle sweep and escalation of the chat      *)
(* backend.  Every coroutine (request handler, idle sweeper, webhook task) *)
(* is a process whose position is its pc; one action is one stretch of     *)
(* code between two effects on a shared store (Postgres, Redis).           *)
(* A request's database writes are pending in its transaction until the    *)
(* commit; Redis commands take effect at once.  Key expiry by TTL is not   *)
(* an event of the model: the billing TTL (60 min) outlives the sweep      *)
(* threshold (30 min).                                                     *)
(***************************************************************************)
EXTENDS Integers, Sequences, FiniteSets, TLC

\* ---------------------------------------------------------------- bounds
MaxSessions == 2
NumWorkers == 2
MaxRequests == 3
MaxSweepRequests == 2
MaxMemoryRequests == 12
MaxSweeps == 1
MaxFaults == 1
MaxTicks == 2
MaxDocs == 2
MaxIngestDocs == 1
MaxVersions == 2
MaxElements == 2
MaxChunks == 2
MaxParsed == 3
MaxHits == 2

\* ------------------------------------------------------ program constants
idle_session_timeout_minutes == 30
max_retries == 3
_EMBED_BATCH_SIZE == 100
_ALLOWED_EXTENSIONS == {"pdf", "docx", "html", "txt", "csv"}

Nil == 0 - 1

\* the absent text (None, NULL)
None == "<None>"

Sessions == 1..MaxSessions
Workers == 1..NumWorkers
Sweeper == 0
Procs == Workers \cup {Sweeper}
Docs == 1..MaxDocs

\* the querying tenant and another one
Tenants == {"A", "B"}

\* _VECTOR_TYPES, in the order embed_and_store builds the points of a chunk
_VECTOR_TYPES == <<"raw", "summary", "hypothetical">>

VectorTypes == {_VECTOR_TYPES[i] : i \in 1..Len(_VECTOR_TYPES)}

\* the hard maximum of a chunk and the overlap of two windows, in tokens
_MAX_CHUNK_TOKENS == 500
_OVERLAP_TOKENS == 50

\* the number of results the reranker is asked for
_RERANK_TOP_N == 8

\* the constant of Reciprocal Rank Fusion and the number of candidates kept
_RRF_K == 60
_RRF_TOP_N == 40

\* QdrantService._collection_name
_collection_name(tenant_id) == <<"tenant", tenant_id>>

\* variant: one cache key for every tenant
_bm25_cache_key_mut(tenant_id) == <<"bm25_index">>

\* retrieval._bm25_cache_key
_bm25_cache_key(tenant_id) == <<"bm25_index", tenant_id>>

Collections == {_collection_name(t) : t \in Tenants}

CacheKeys == {_bm25_cache_key(t) : t \in Tenants}

\* ConversationMemoryManager(window_size=10)
window_size == 10

\* time advances in jumps of just over the idle threshold
TickMinutes == idle_session_timeout_minutes + 1

\* token counts (input, output) a turn can report
TokenPairs == {<<2, 1>>, <<3, 2>>}

\* should_escalate's reasons
EscalationReasons == {"low_retrieval_confidence", "max_turns_exceeded"}

BillingTtl == idle_session_timeout_minutes * 60 * 2

VARIABLES
  now,            \* wall clock, minutes
  sessions,       \* committed rows of table sessions
  billing_events, \* committed rows of table billing_events, per session
  messages,       \* committed number of rows of table messages, per session
  redis_billing,  \* the three billing counters of each session (Nil: no key)
  redis_ttl,      \* TTL of the three billing keys (Nil: none)
  redis_memory,   \* memory:<session> (Nil: no key), number of stored turns
  pc,             \* position of each coroutine
  loc,            \* locals of each coroutine
  tx,             \* pending writes of each coroutine's database session
  hooks,          \* webhook background tasks, in creation order
  metered,        \* history: sums of the arguments of the completed record_message calls
  flushed,        \* history: a close_session has started deleting the keys
  used,           \* history: requests, sweeps, faults and ticks spent
  documents,      \* committed rows of table knowledge_documents
  qdrant,         \* the payloads of the points of each collection
  bm25_cache,     \* the payloads held under each BM25 cache key ({}: no key)
  ing,            \* the background ingestion task of each upload
  ret,            \* the retrieval in progress
  cleanups,       \* documents whose vector cleanup task is pending
  parsed_elements, \* the elements the parser returned
  chunked,        \* the chunks made of them
  scoring         \* the ranking and scoring of one retrieval's candidates

chatvars == <<now, sessions, billing_events, messages, redis_billing, redis_ttl,
              redis_memory, pc, loc, tx, hooks, metered, flushed, used>>

chunkvars == <<parsed_elements, chunked>>

kbvars == <<documents, qdrant, bm25_cache, ing, ret, cleanups,
           parsed_elements, chunked, scoring>>

vars == <<now, sessions, billing_events, messages, redis_billing, redis_ttl,
          redis_memory, pc, loc, tx, hooks, metered, flushed, used,
          documents, qdrant, bm25_cache, ing, ret, cleanups,
          parsed_elements, chunked, scoring>>

\* ------------------------------------------------------------- records
NoSession == [exists |-> FALSE, status |-> "active", started_at |-> Nil,
              ended_at |-> Nil, escalation_reason |-> "none"]

NoKeys == [input_tokens |-> Nil, output_tokens |-> Nil, message_count |-> Nil]

NoCount == [input_tokens |-> 0, output_tokens |-> 0, message_count |-> 0]

NoLoc == [op |-> "none", sid |-> 0, stream |-> FALSE, transcript |-> Nil,
          input_tokens |-> 0, output_tokens |-> 0,
          escalation_required |-> FALSE, event_type |-> "none",
          raw_input |-> Nil, raw_output |-> Nil, raw_count |-> Nil,
          memory |-> Nil, todo |-> {}, selected |-> {},
          snap |-> 0, clean |-> TRUE, failed |-> {},
          classified |-> "none", intent |-> "none", reply |-> "none",
          retrievals |-> 0, results |-> <<>>, reason |-> "none",
          output |-> [intent_type |-> "none", escalation_reason |-> "none",
                      source_chunks |-> <<>>],
          before |-> [memory |-> Nil, messages |-> 0, billing |-> NoKeys]]

NoTx == [ok |-> TRUE, created |-> 0, started_at |-> Nil,
         resolved |-> [s \in Sessions |-> Nil],
         events |-> <<>>, messages |-> 0]

BillingEvent(sid, type, i, o, c) ==
  [session_id |-> sid, event_type |-> type, total_input_tokens |-> i,
   total_output_tokens |-> o, total_messages |-> c]

\* no row of knowledge_documents
NoDoc == [exists |-> FALSE, tenant_id |-> "none", version |-> 1,
          is_active |-> TRUE, status |-> "processing", chunk_count |-> Nil,
          error_message |-> None]

\* an ingestion task that does not exist yet; meta, embedded and built are
\* per chunk, points is the list embed_and_store builds
NoRun == [pc |-> "none", tenant_id |-> "none", version |-> 1, elements |-> 0,
          chunks |-> 0, emitted |-> 0, meta |-> <<>>, embedded |-> <<>>,
          built |-> <<>>, points |-> <<>>, offset |-> 0, error |-> "none",
          result |-> "none", cause |-> "none", total |-> Nil,
          written |-> FALSE, invalidated |-> "no"]

\* no retrieval in progress; ready: history, the documents of the tenant
\* whose ingestion had returned when the retrieval started; cached: what the
\* read of the cache key gave; entry: the index the query is scored against
NoRet == [pc |-> "idle", tenant_id |-> "none", dense |-> {}, sparse |-> {},
          results |-> {}, failed |-> "none", ready |-> {},
          cached |-> "none", entry |-> {}]

\* no candidates are being ranked
NoScoring == [pc |-> "idle", dense |-> <<>>, sparse |-> <<>>, merged |-> <<>>,
              ranked |-> <<>>, path |-> "none", confidence |-> 0,
              turn_count |-> 0, max_turns |-> 0, escalate_threshold |-> 0,
              should_escalate |-> FALSE, escalation_reason |-> "none"]

Init ==
  /\ now = 0
  /\ sessions = [s \in Sessions |-> NoSession]
  /\ billing_events = [s \in Sessions |-> <<>>]
  /\ messages = [s \in Sessions |-> 0]
  /\ redis_billing = [s \in Sessions |-> NoKeys]
  /\ redis_ttl = [s \in Sessions |-> NoKeys]
  /\ redis_memory = [s \in Sessions |-> Nil]
  /\ pc = [p \in Procs |-> "idle"]
  /\ loc = [p \in Procs |-> NoLoc]
  /\ tx = [p \in Procs |-> NoTx]
  /\ hooks = <<>>
  /\ metered = [s \in Sessions |-> NoCount]
  /\ flushed = [s \in Sessions |-> FALSE]
  /\ used = [requests |-> 0, sweeps |-> 0, faults |-> 0, ticks |-> 0]
  /\ documents = [d \in Docs |-> NoDoc]
  /\ qdrant = [c \in Collections |-> {}]
  /\ bm25_cache = [k \in CacheKeys |-> {}]
  /\ ing = [d \in Docs |-> NoRun]
  /\ ret = NoRet
  /\ cleanups = {}
  /\ parsed_elements = <<>>
  /\ chunked = <<>>
  /\ scoring = NoScoring

\* ------------------------------------------------------------ helpers
\* variant: the counter is set to the amount (SET in the place of INCRBY)
increment_mut(val, amount) == amount

\* RedisClient.increment: INCRBY creates a missing key at 0 first
increment(val, amount) == IF val = Nil THEN amount ELSE val + amount

\* int(raw) if raw else 0 (raw is the decimal string of the counter, or None)
ToInt(raw) == IF raw = Nil THEN 0 ELSE raw

\* a record_message call on session s is in flight (called, not yet returned)
Recording(s) ==
  \E q \in Procs : /\ loc[q].sid = s
                   /\ pc[q] \in {"rec_in", "rec_out", "rec_cnt", "rec_expire"}

\* AsyncSession.commit: the pending writes of p become the committed rows
CommitSessions(p) ==
  [s \in Sessions |->
     IF tx[p].created = s
       THEN [NoSession EXCEPT !.exists = TRUE, !.started_at = tx[p].started_at,
                              !.status = IF tx[p].resolved[s] # Nil
                                           THEN "resolved" ELSE "active",
                              !.ended_at = tx[p].resolved[s]]
     ELSE IF tx[p].resolved[s] # Nil
       THEN [sessions[s] EXCEPT !.status = "resolved",
                                !.ended_at = tx[p].resolved[s]]
     ELSE sessions[s]]

RECURSIVE EventsOf(_, _)
EventsOf(evs, s) ==
  IF evs = <<>> THEN <<>>
  ELSE IF Head(evs).session_id = s
    THEN <<Head(evs)>> \o EventsOf(Tail(evs), s)
    ELSE EventsOf(Tail(evs), s)

CommitEvents(p) ==
  [s \in Sessions |-> billing_events[s] \o EventsOf(tx[p].events, s)]

CommitMessages(p) ==
  [s \in Sessions |->
     IF loc[p].sid = s THEN messages[s] + tx[p].messages ELSE messages[s]]

\* ---------------------------------------------------------------- clock
\* a jump of the clock is longer than any request or sweep: it happens while
\* every coroutine is idle
\* the memory keys are set with a TTL of idle_session_timeout_minutes
\* (ConversationMemoryManager._ttl): a jump expires every one of them
Tick ==
  /\ UNCHANGED kbvars
  /\ used.ticks < MaxTicks
  /\ \A p \in Procs : pc[p] = "idle"
  /\ now' = now + TickMinutes
  /\ redis_memory' = [s \in Sessions |-> Nil]
  /\ used' = [used EXCEPT !.ticks = @ + 1]
  /\ UNCHANGED <<sessions, billing_events, messages, redis_billing, redis_ttl,
                 pc, loc, tx, hooks, metered, flushed>>

\* where the caller of record_message continues: send_message closes the
\* billing of an escalated turn, _stream_response and start_session return
RecordReturn(p) ==
  IF loc[p].op = "send" /\ loc[p].escalation_required
    THEN "cls_rd_in" ELSE "commit"

\* ------------------------------------------------ BillingService.record_message
RecordInput(p) ==
  /\ UNCHANGED kbvars
  /\ pc[p] = "rec_in"
  /\ redis_billing' = [redis_billing EXCEPT ![loc[p].sid].input_tokens =
                         increment(@, loc[p].input_tokens)]
  /\ pc' = [pc EXCEPT ![p] = "rec_out"]
  /\ UNCHANGED <<now, sessions, billing_events, messages, redis_ttl,
                 redis_memory, loc, tx, hooks, metered, flushed, used>>

RecordOutput(p) ==
  /\ UNCHANGED kbvars
  /\ pc[p] = "rec_out"
  /\ redis_billing' = [redis_billing EXCEPT ![loc[p].sid].output_tokens =
                         increment(@, loc[p].output_tokens)]
  /\ pc' = [pc EXCEPT ![p] = "rec_cnt"]
  /\ UNCHANGED <<now, sessions, billing_events, messages, redis_ttl,
                 redis_memory, loc, tx, hooks, metered, flushed, used>>

RecordCount(p) ==
  /\ UNCHANGED kbvars
  /\ pc[p] = "rec_cnt"
  /\ redis_billing' = [redis_billing EXCEPT ![loc[p].sid].message_count =
                         increment(@, 1)]
  /\ pc' = [pc EXCEPT ![p] = "rec_expire"]
  /\ UNCHANGED <<now, sessions, billing_events, messages, redis_ttl,
                 redis_memory, loc, tx, hooks, metered, flushed, used>>

\* EXPIRE sets a TTL on an existing key only; then the call returns
RecordExpire(p) ==
  /\ UNCHANGED kbvars
  /\ pc[p] = "rec_expire"
  /\ LET s == loc[p].sid
         k == redis_billing[s]
     IN /\ redis_ttl' = [redis_ttl EXCEPT ![s] =
              [input_tokens |-> IF k.input_tokens = Nil THEN Nil ELSE BillingTtl,
               output_tokens |-> IF k.output_tokens = Nil THEN Nil ELSE BillingTtl,
               message_count |-> IF k.message_count = Nil THEN Nil ELSE BillingTtl]]
        /\ metered' = [metered EXCEPT ![s] =
              [input_tokens |-> @.input_tokens + loc[p].input_tokens,
               output_tokens |-> @.output_tokens + loc[p].output_tokens,
               message_count |-> @.message_count + 1]]
  /\ pc' = [pc EXCEPT ![p] = RecordReturn(p)]
  /\ UNCHANGED <<now, sessions, billing_events, messages, redis_billing,
                 redis_memory, loc, tx, hooks, flushed, used>>

\* a request is served by the first free handler
Free(p) ==
  /\ p \in Workers
  /\ pc[p] = "idle"
  /\ \A q \in Workers : q < p => pc[q] # "idle"

\* ----------------------------------------------------------- start_session
StartSession(p, s) ==
  /\ UNCHANGED kbvars
  /\ Free(p)
  /\ ~sessions[s].exists
  /\ \A q \in Procs : tx[q].created # s
  /\ \A t \in Sessions : t < s => (sessions[t].exists \/ \E q \in Procs : tx[q].created = t)
  /\ tx' = [tx EXCEPT ![p] = [NoTx EXCEPT !.created = s, !.started_at = now]]
  /\ loc' = [loc EXCEPT ![p] = [NoLoc EXCEPT !.op = "start", !.sid = s]]
  /\ pc' = [pc EXCEPT ![p] = "rec_in"]
  /\ used' = [used EXCEPT !.requests = @ + 1]
  /\ UNCHANGED <<now, sessions, billing_events, messages, redis_billing,
                 redis_ttl, redis_memory, hooks, metered, flushed>>


\* ------------------------------------------------ BillingService.close_session
\* the caller's event_type argument
CloseType(p) ==
  IF loc[p].op = "end" THEN "resolved"
  ELSE IF loc[p].op = "sweep" THEN "timeout"
  ELSE "escalated"

\* where the caller continues after close_session has returned
CloseReturn(p) ==
  IF loc[p].op = "end" THEN "end_clear"
  ELSE IF loc[p].op = "sweep" THEN "sweep_loop"
  ELSE "commit"

\* history: no record_message call on the session overlaps this call so far
Undisturbed(p) ==
  /\ ~Recording(loc[p].sid)
  /\ metered[loc[p].sid].message_count = loc[p].snap

CloseReadInput(p) ==
  /\ UNCHANGED kbvars
  /\ pc[p] = "cls_rd_in"
  /\ loc' = [loc EXCEPT ![p].raw_input = redis_billing[loc[p].sid].input_tokens,
                        ![p].event_type = CloseType(p),
                        ![p].snap = metered[loc[p].sid].message_count,
                        ![p].clean = ~Recording(loc[p].sid)]
  /\ pc' = [pc EXCEPT ![p] = "cls_rd_out"]
  /\ UNCHANGED <<now, sessions, billing_events, messages, redis_billing,
                 redis_ttl, redis_memory, tx, hooks, metered, flushed, used>>

CloseReadOutput(p) ==
  /\ UNCHANGED kbvars
  /\ pc[p] = "cls_rd_out"
  /\ loc' = [loc EXCEPT ![p].raw_output = redis_billing[loc[p].sid].output_tokens,
                        ![p].clean = @ /\ Undisturbed(p)]
  /\ pc' = [pc EXCEPT ![p] = "cls_rd_cnt"]
  /\ UNCHANGED <<now, sessions, billing_events, messages, redis_billing,
                 redis_ttl, redis_memory, tx, hooks, metered, flushed, used>>

CloseReadCount(p) ==
  /\ UNCHANGED kbvars
  /\ pc[p] = "cls_rd_cnt"
  /\ loc' = [loc EXCEPT ![p].raw_count = redis_billing[loc[p].sid].message_count,
                        ![p].clean = @ /\ Undisturbed(p)]
  /\ pc' = [pc EXCEPT ![p] = "cls_insert"]
  /\ UNCHANGED <<now, sessions, billing_events, messages, redis_billing,
                 redis_ttl, redis_memory, tx, hooks, metered, flushed, used>>

\* variant: total_messages is taken from the output counter
CloseInsert_mut(p) ==
  /\ UNCHANGED kbvars
  /\ pc[p] = "cls_insert"
  /\ tx[p].ok
  /\ tx' = [tx EXCEPT ![p].events = Append(@,
              BillingEvent(loc[p].sid, loc[p].event_type,
                           ToInt(loc[p].raw_input), ToInt(loc[p].raw_output),
                           ToInt(loc[p].raw_output)))]
  /\ loc' = [loc EXCEPT ![p].clean = @ /\ Undisturbed(p)]
  /\ pc' = [pc EXCEPT ![p] = "cls_del_in"]
  /\ UNCHANGED <<now, sessions, billing_events, messages, redis_billing,
                 redis_ttl, redis_memory, hooks, metered, flushed, used>>

\* db.add(event); db.flush(): the row is pending in the caller's transaction
CloseInsert(p) ==
  /\ UNCHANGED kbvars
  /\ pc[p] = "cls_insert"
  /\ tx[p].ok
  /\ tx' = [tx EXCEPT ![p].events = Append(@,
              BillingEvent(loc[p].sid, loc[p].event_type,
                           ToInt(loc[p].raw_input), ToInt(loc[p].raw_output),
                           ToInt(loc[p].raw_count)))]
  /\ loc' = [loc EXCEPT ![p].clean = @ /\ Undisturbed(p)]
  /\ pc' = [pc EXCEPT ![p] = "cls_del_in"]
  /\ UNCHANGED <<now, sessions, billing_events, messages, redis_billing,
                 redis_ttl, redis_memory, hooks, metered, flushed, used>>

CloseDeleteInput(p) ==
  /\ UNCHANGED kbvars
  /\ pc[p] = "cls_del_in"
  /\ redis_billing' = [redis_billing EXCEPT ![loc[p].sid].input_tokens = Nil]
  /\ redis_ttl' = [redis_ttl EXCEPT ![loc[p].sid].input_tokens = Nil]
  /\ flushed' = [flushed EXCEPT ![loc[p].sid] = TRUE]
  /\ loc' = [loc EXCEPT ![p].snap = metered[loc[p].sid].message_count,
                        ![p].clean = ~Recording(loc[p].sid)]
  /\ pc' = [pc EXCEPT ![p] = "cls_del_out"]
  /\ UNCHANGED <<now, sessions, billing_events, messages, redis_memory, tx,
                 hooks, metered, used>>

CloseDeleteOutput(p) ==
  /\ UNCHANGED kbvars
  /\ pc[p] = "cls_del_out"
  /\ redis_billing' = [redis_billing EXCEPT ![loc[p].sid].output_tokens = Nil]
  /\ redis_ttl' = [redis_ttl EXCEPT ![loc[p].sid].output_tokens = Nil]
  /\ loc' = [loc EXCEPT ![p].clean = @ /\ Undisturbed(p)]
  /\ pc' = [pc EXCEPT ![p] = "cls_del_cnt"]
  /\ UNCHANGED <<now, sessions, billing_events, messages, redis_memory, tx,
                 hooks, metered, flushed, used>>

\* variant: the third delete names the output key again
CloseDeleteCount_mut(p) ==
  /\ UNCHANGED kbvars
  /\ pc[p] = "cls_del_cnt"
  /\ redis_billing' = [redis_billing EXCEPT ![loc[p].sid].output_tokens = Nil]
  /\ redis_ttl' = [redis_ttl EXCEPT ![loc[p].sid].output_tokens = Nil]
  /\ loc' = [loc EXCEPT ![p].clean = @ /\ Undisturbed(p)]
  /\ pc' = [pc EXCEPT ![p] = CloseReturn(p)]
  /\ UNCHANGED <<now, sessions, billing_events, messages, redis_memory, tx,
                 hooks, metered, flushed, used>>

\* the last delete; close_session returns to its caller
CloseDeleteCount(p) ==
  /\ UNCHANGED kbvars
  /\ pc[p] = "cls_del_cnt"
  /\ redis_billing' = [redis_billing EXCEPT ![loc[p].sid].message_count = Nil]
  /\ redis_ttl' = [redis_ttl EXCEPT ![loc[p].sid].message_count = Nil]
  /\ loc' = [loc EXCEPT ![p].clean = @ /\ Undisturbed(p)]
  /\ pc' = [pc EXCEPT ![p] = CloseReturn(p)]
  /\ UNCHANGED <<now, sessions, billing_events, messages, redis_memory, tx,
                 hooks, metered, flushed, used>>

\* ------------------------------------------------------------- end_session
\* select the session (any status), set status and ended_at, flush
EndSession(p, s) ==
  /\ UNCHANGED kbvars
  /\ Free(p)
  /\ sessions[s].exists
  /\ tx' = [tx EXCEPT ![p] = [NoTx EXCEPT !.resolved[s] = now]]
  /\ loc' = [loc EXCEPT ![p] = [NoLoc EXCEPT !.op = "end", !.sid = s]]
  /\ pc' = [pc EXCEPT ![p] = "cls_rd_in"]
  /\ used' = [used EXCEPT !.requests = @ + 1]
  /\ UNCHANGED <<now, sessions, billing_events, messages, redis_billing,
                 redis_ttl, redis_memory, hooks, metered, flushed>>

\* memory_manager.clear(session_id), then the handler returns
EndClear(p) ==
  /\ UNCHANGED kbvars
  /\ pc[p] = "end_clear"
  /\ redis_memory' = [redis_memory EXCEPT ![loc[p].sid] = Nil]
  /\ pc' = [pc EXCEPT ![p] = "commit"]
  /\ UNCHANGED <<now, sessions, billing_events, messages, redis_billing,
                 redis_ttl, loc, tx, hooks, metered, flushed, used>>

\* ------------------------------------------- send_message / _stream_response
\* step 1: the session must belong to the tenant and be active
SendMessage(p, s, stream) ==
  /\ UNCHANGED kbvars
  /\ Free(p)
  /\ sessions[s].exists
  /\ sessions[s].status = "active"
  /\ tx' = [tx EXCEPT ![p] = NoTx]
  /\ loc' = [loc EXCEPT ![p] = [NoLoc EXCEPT !.op = IF stream THEN "stream" ELSE "send",
                                             !.sid = s, !.stream = stream]]
  /\ pc' = [pc EXCEPT ![p] = "turn"]
  /\ used' = [used EXCEPT !.requests = @ + 1]
  /\ UNCHANGED <<now, sessions, billing_events, messages, redis_billing,
                 redis_ttl, redis_memory, hooks, metered, flushed>>

\* handle_turn: load the memory, classify, retrieve; escalate says whether the
\* turn is a domain query whose retrieval reports should_escalate
TurnLoad(p, escalate) ==
  /\ UNCHANGED kbvars
  /\ pc[p] = "turn"
  /\ loc' = [loc EXCEPT ![p].memory = redis_memory[loc[p].sid]]
  /\ pc' = [pc EXCEPT ![p] = IF escalate THEN "esc_load" ELSE "turn_save"]
  /\ UNCHANGED <<now, sessions, billing_events, messages, redis_billing,
                 redis_ttl, redis_memory, tx, hooks, metered, flushed, used>>

\* the arguments of the record_message call that closes the turn
TurnTokens(p, tok) == IF loc[p].stream THEN <<0, 0>> ELSE tok

\* variant: only the assistant message is persisted
TurnSave_mut(p, tok) ==
  /\ UNCHANGED kbvars
  /\ pc[p] = "turn_save"
  /\ redis_memory' = [redis_memory EXCEPT ![loc[p].sid] =
                        (IF loc[p].memory = Nil THEN 0 ELSE loc[p].memory) + 1]
  /\ tx' = [tx EXCEPT ![p].messages = @ + 1]
  /\ loc' = [loc EXCEPT ![p].input_tokens = TurnTokens(p, tok)[1],
                        ![p].output_tokens = TurnTokens(p, tok)[2],
                        ![p].escalation_required = FALSE,
                        ![p].output.intent_type =
                          IF loc[p].retrievals > 0 THEN "conversational"
                          ELSE loc[p].intent]
  /\ pc' = [pc EXCEPT ![p] = "rec_in"]
  /\ UNCHANGED <<now, sessions, billing_events, messages, redis_billing,
                 redis_ttl, hooks, metered, flushed, used>>

\* the reply is appended to the loaded memory, saved, and the two messages
\* are persisted (pending in the request's transaction)
TurnSave(p, tok) ==
  /\ UNCHANGED kbvars
  /\ pc[p] = "turn_save"
  /\ redis_memory' = [redis_memory EXCEPT ![loc[p].sid] =
                        (IF loc[p].memory = Nil THEN 0 ELSE loc[p].memory) + 1]
  /\ tx' = [tx EXCEPT ![p].messages = @ + 2]
  /\ loc' = [loc EXCEPT ![p].input_tokens = TurnTokens(p, tok)[1],
                        ![p].output_tokens = TurnTokens(p, tok)[2],
                        ![p].escalation_required = FALSE,
                        ![p].output.intent_type =
                          IF loc[p].retrievals > 0 THEN "conversational"
                          ELSE loc[p].intent]
  /\ pc' = [pc EXCEPT ![p] = "rec_in"]
  /\ UNCHANGED <<now, sessions, billing_events, messages, redis_billing,
                 redis_ttl, hooks, metered, flushed, used>>

\* ------------------------------------------------- EscalationService.escalate
\* 1. load the transcript
EscalateLoad(p) ==
  /\ UNCHANGED kbvars
  /\ pc[p] = "esc_load"
  /\ loc' = [loc EXCEPT ![p].transcript = messages[loc[p].sid] + tx[p].messages]
  /\ pc' = [pc EXCEPT ![p] = "esc_update"]
  /\ UNCHANGED <<now, sessions, billing_events, messages, redis_billing,
                 redis_ttl, redis_memory, tx, hooks, metered, flushed, used>>

\* a webhook task that has not run yet
\* (inserted: "none", or the outcome "ok" / "failed" of the compensating insert)
NewHook(s) == [session_id |-> s, attempt |-> 0, state |-> "ready", posts |-> 0,
               waits |-> <<>>, delivered |-> FALSE, escaped |-> FALSE,
               inserted |-> "none"]

\* variant: the webhook task is created before the update is committed
EscalateUpdate_mut(p, reason) ==
  /\ UNCHANGED kbvars
  /\ pc[p] = "esc_update"
  /\ sessions' = [CommitSessions(p) EXCEPT ![loc[p].sid] =
                    [@ EXCEPT !.status = "escalated",
                              !.escalation_reason = reason,
                              !.ended_at = now]]
  /\ billing_events' = CommitEvents(p)
  /\ messages' = CommitMessages(p)
  /\ tx' = [tx EXCEPT ![p] = NoTx]
  /\ hooks' = Append(hooks, NewHook(loc[p].sid))
  /\ pc' = [pc EXCEPT ![p] = "esc_enqueue"]
  /\ UNCHANGED <<now, redis_billing, redis_ttl, redis_memory, loc,
                 metered, flushed, used>>

\* 2. update the session row and commit
EscalateUpdate(p, reason) ==
  /\ UNCHANGED kbvars
  /\ pc[p] = "esc_update"
  /\ sessions' = [CommitSessions(p) EXCEPT ![loc[p].sid] =
                    [@ EXCEPT !.status = "escalated",
                              !.escalation_reason = reason,
                              !.ended_at = now]]
  /\ billing_events' = CommitEvents(p)
  /\ messages' = CommitMessages(p)
  /\ tx' = [tx EXCEPT ![p] = NoTx]
  /\ pc' = [pc EXCEPT ![p] = "esc_enqueue"]
  /\ UNCHANGED <<now, redis_billing, redis_ttl, redis_memory, loc, hooks,
                 metered, flushed, used>>

\* 3. asyncio.create_task(_fire_webhook_with_retries) when a URL is configured
EscalateEnqueue(p, url) ==
  /\ UNCHANGED kbvars
  /\ pc[p] = "esc_enqueue"
  /\ hooks' = IF url THEN Append(hooks, NewHook(loc[p].sid)) ELSE hooks
  /\ pc' = [pc EXCEPT ![p] = "esc_clear"]
  /\ UNCHANGED <<now, sessions, billing_events, messages, redis_billing,
                 redis_ttl, redis_memory, loc, tx, metered, flushed, used>>

\* variant: the turn is saved to the memory after the escalation
EscalateClear_mut(p, tok) ==
  /\ UNCHANGED kbvars
  /\ pc[p] = "esc_clear"
  /\ redis_memory' = [redis_memory EXCEPT ![loc[p].sid] =
                        (IF loc[p].memory = Nil THEN 0 ELSE loc[p].memory) + 1]
  /\ tx' = [tx EXCEPT ![p].messages = @ + 2]
  /\ loc' = [loc EXCEPT ![p].input_tokens = TurnTokens(p, tok)[1],
                        ![p].output_tokens = TurnTokens(p, tok)[2],
                        ![p].escalation_required = TRUE,
                        ![p].output = [intent_type |-> "domain_query",
                                       escalation_reason |-> loc[p].reason,
                                       source_chunks |-> loc[p].results]]
  /\ pc' = [pc EXCEPT ![p] = "rec_in"]
  /\ UNCHANGED <<now, sessions, billing_events, messages, redis_billing,
                 redis_ttl, hooks, metered, flushed, used>>

\* 4. clear the memory; escalate returns, handle_turn builds the escalation
\* output and persists the two messages
EscalateClear(p, tok) ==
  /\ UNCHANGED kbvars
  /\ pc[p] = "esc_clear"
  /\ redis_memory' = [redis_memory EXCEPT ![loc[p].sid] = Nil]
  /\ tx' = [tx EXCEPT ![p].messages = @ + 2]
  /\ loc' = [loc EXCEPT ![p].input_tokens = TurnTokens(p, tok)[1],
                        ![p].output_tokens = TurnTokens(p, tok)[2],
                        ![p].escalation_required = TRUE,
                        ![p].output = [intent_type |-> "domain_query",
                                       escalation_reason |-> loc[p].reason,
                                       source_chunks |-> loc[p].results]]
  /\ pc' = [pc EXCEPT ![p] = "rec_in"]
  /\ UNCHANGED <<now, sessions, billing_events, messages, redis_billing,
                 redis_ttl, hooks, metered, flushed, used>>

\* the request's database session commits after the handler has returned
RequestCommit(p) ==
  /\ UNCHANGED kbvars
  /\ pc[p] = "commit"
  /\ sessions' = CommitSessions(p)
  /\ billing_events' = CommitEvents(p)
  /\ messages' = CommitMessages(p)
  /\ tx' = [tx EXCEPT ![p] = NoTx]
  /\ loc' = [loc EXCEPT ![p] = NoLoc]
  /\ pc' = [pc EXCEPT ![p] = "idle"]
  /\ UNCHANGED <<now, redis_billing, redis_ttl, redis_memory, hooks, metered,
                 flushed, used>>

\* ------------------------------------------------- AgentCore.handle_turn
\* the values of IntentType, in the order of the enum, as character sequences
conversational ==
  <<"c","o","n","v","e","r","s","a","t","i","o","n","a","l">>
domain_query == <<"d","o","m","a","i","n","_","q","u","e","r","y">>
out_of_scope == <<"o","u","t","_","o","f","_","s","c","o","p","e">>
IntentType == <<conversational, domain_query, out_of_scope>>
IntentName == <<"conversational", "domain_query", "out_of_scope">>

\* str.startswith and the substring test (in)
StartsWith(value, label) ==
  Len(label) <= Len(value) /\ SubSeq(value, 1, Len(label)) = label

Contains(line, value) ==
  \E k \in 1..(Len(line) - Len(value) + 1) :
    SubSeq(line, k, k + Len(value) - 1) = value

\* an output of the combined call: whether the first line holds "intent:",
\* the label behind it (or the whole line), and what follows the first line
\* break once stripped of "response:" (None: no line break)
RawOutputs ==
  {[prefix |-> TRUE,  label |-> conversational, rest |-> "text"],
   [prefix |-> TRUE,  label |-> conversational, rest |-> ""],
   [prefix |-> TRUE,  label |-> domain_query, rest |-> "needs_retrieval"],
   [prefix |-> TRUE,  label |-> out_of_scope, rest |-> "text"],
   [prefix |-> TRUE,  label |-> <<"d","o","m","a">>, rest |-> "needs_retrieval"],
   [prefix |-> TRUE,  label |-> <<"o","u","t">>, rest |-> "text"],
   [prefix |-> FALSE, label |-> <<"a"," ">> \o domain_query, rest |-> None],
   [prefix |-> FALSE, label |-> <<"s","u","r","e">>, rest |-> "text"],
   [prefix |-> FALSE, label |-> <<"s","u","r","e">>, rest |-> None]}

\* the test the loop of _parse_combined_response makes on a member of the
\* enum: on the label after "intent:", or on the whole first line
Matches(raw, v) ==
  IF raw.prefix
    THEN \/ StartsWith(v, raw.label) /\ Len(raw.label) >= 4
         \/ raw.label = v
    ELSE Contains(raw.label, v)

\* the member of the enum _parse_combined_response recognises (the first one
\* its loop stops at), 0 for none
ParsedIntent(raw) ==
  IF \E k \in 1..Len(IntentType) : Matches(raw, IntentType[k])
    THEN CHOOSE k \in 1..Len(IntentType) :
           /\ Matches(raw, IntentType[k])
           /\ \A j \in 1..(k - 1) : ~Matches(raw, IntentType[j])
    ELSE 0

\* _parse_combined_response: (intent, response or None)
parse_combined_response(raw) ==
  LET k == ParsedIntent(raw)
  IN [intent |-> IntentName[IF k = 0 THEN 1 ELSE k],
      response |-> IF raw.rest \in {None, "", "needs_retrieval"}
                     THEN None ELSE raw.rest]

\* ------------------------------------------------ RetrievalService.retrieve
\* scores are in hundredths, confidences and thresholds in ten-thousandths
RankedLists == {<<>>, <<30>>, <<90, 50>>}

\* tenant_config: escalation_threshold and max_turns_before_escalation
\* (defaults 0.55 and 10)
TenantConfigs ==
  {[escalation_threshold |-> 5500, max_turns_before_escalation |-> 10],
   [escalation_threshold |-> 0, max_turns_before_escalation |-> 1]}

\* top_score * 0.85 + (supporting / 10) * 0.15, at most 1.0
compute_confidence(rerank_results) ==
  IF rerank_results = <<>> THEN 0
  ELSE LET supporting == Cardinality({k \in 1..Len(rerank_results) :
                                        rerank_results[k] > 40})
           c == 85 * rerank_results[1] + 150 * supporting
       IN IF c > 10000 THEN 10000 ELSE c

\* variant: the turn limit is tested before the confidence
should_escalate_mut(confidence, turn_count, max_turns, escalate_threshold) ==
  IF turn_count >= max_turns THEN <<TRUE, "max_turns_exceeded">>
  ELSE IF confidence < escalate_threshold
    THEN <<TRUE, "low_retrieval_confidence">>
  ELSE <<FALSE, "none">>

should_escalate(confidence, turn_count, max_turns, escalate_threshold) ==
  IF confidence < escalate_threshold THEN <<TRUE, "low_retrieval_confidence">>
  ELSE IF turn_count >= max_turns THEN <<TRUE, "max_turns_exceeded">>
  ELSE <<FALSE, "none">>

\* retrieve: an empty collection is answered at once, else the ranked list
\* is scored
retrieve(point_count, ranked, cfg, turn_count) ==
  IF point_count = 0
    THEN [results |-> <<>>, confidence |-> 0, should_escalate |-> FALSE,
          escalation_reason |-> "none"]
    ELSE LET d == should_escalate(compute_confidence(ranked), turn_count,
                                  cfg.max_turns_before_escalation,
                                  cfg.escalation_threshold)
         IN [results |-> ranked, confidence |-> compute_confidence(ranked),
             should_escalate |-> d[1], escalation_reason |-> d[2]]

\* --------------------------------------- handle_turn, branch by branch
\* number of HumanMessages in the loaded memory
TurnCount(memory) == IF memory = Nil THEN 0 ELSE memory

\* handle_turn loads the memory and branches on the intent
Classified(p, how, parsed) ==
  /\ UNCHANGED kbvars
  /\ pc[p] = "turn"
  /\ loc' = [loc EXCEPT
       ![p].memory = redis_memory[loc[p].sid],
       ![p].classified = how,
       ![p].intent = parsed.intent,
       ![p].reply = IF parsed.response = None THEN "static" ELSE "llm",
       ![p].before = [memory |-> redis_memory[loc[p].sid],
                      messages |-> messages[loc[p].sid],
                      billing |-> redis_billing[loc[p].sid]]]
  /\ pc' = [pc EXCEPT ![p] = IF parsed.intent = "domain_query"
                               THEN "retrieve" ELSE "turn_save"]
  /\ UNCHANGED <<now, sessions, billing_events, messages, redis_billing,
                 redis_ttl, redis_memory, tx, hooks, metered, flushed, used>>

\* the combined classify-and-respond call returns raw
TurnClassify(p, raw) ==
  Classified(p, IF ParsedIntent(raw) = 0 THEN "unparsed" ELSE "parsed",
             parse_combined_response(raw))

\* the combined call raises: CONVERSATIONAL, no response
TurnClassifyFails(p) ==
  Classified(p, "failed", [intent |-> "conversational", response |-> None])

\* variant: should_escalate is looked at before the empty result list
TurnRetrieve_mut(p, point_count, ranked, cfg) ==
  /\ UNCHANGED kbvars
  /\ pc[p] = "retrieve"
  /\ LET r == retrieve(point_count, ranked, cfg,
                       TurnCount(redis_memory[loc[p].sid]))
     IN /\ loc' = [loc EXCEPT ![p].memory = redis_memory[loc[p].sid],
                              ![p].retrievals = @ + 1,
                              ![p].results = r.results,
                              ![p].reason = r.escalation_reason]
        /\ pc' = [pc EXCEPT ![p] = IF r.should_escalate THEN "esc_load"
                                   ELSE IF r.results = <<>> THEN "conv"
                                   ELSE "rag"]
  /\ UNCHANGED <<now, sessions, billing_events, messages, redis_billing,
                 redis_ttl, redis_memory, tx, hooks, metered, flushed, used>>

\* _handle_domain_query: load the memory, call the retrieval tool, branch
TurnRetrieve(p, point_count, ranked, cfg) ==
  /\ UNCHANGED kbvars
  /\ pc[p] = "retrieve"
  /\ LET r == retrieve(point_count, ranked, cfg,
                       TurnCount(redis_memory[loc[p].sid]))
     IN /\ loc' = [loc EXCEPT ![p].memory = redis_memory[loc[p].sid],
                              ![p].retrievals = @ + 1,
                              ![p].results = r.results,
                              ![p].reason = r.escalation_reason]
        /\ pc' = [pc EXCEPT ![p] = IF r.results = <<>> THEN "conv"
                                   ELSE IF r.should_escalate THEN "esc_load"
                                   ELSE "rag"]
  /\ UNCHANGED <<now, sessions, billing_events, messages, redis_billing,
                 redis_ttl, redis_memory, tx, hooks, metered, flushed, used>>

\* empty results: _handle_conversational loads the memory and generates; a
\* failed or empty generation gives the static greeting
TurnFallback(p, ok) ==
  /\ UNCHANGED kbvars
  /\ pc[p] = "conv"
  /\ loc' = [loc EXCEPT ![p].memory = redis_memory[loc[p].sid],
                        ![p].reply = IF ok THEN "llm" ELSE "static"]
  /\ pc' = [pc EXCEPT ![p] = "turn_save"]
  /\ UNCHANGED <<now, sessions, billing_events, messages, redis_billing,
                 redis_ttl, redis_memory, tx, hooks, metered, flushed, used>>

\* variant: the turn is appended to the memory before the composition call
TurnRag_mut(p, ok, tok) ==
  /\ UNCHANGED kbvars
  /\ pc[p] = "rag"
  /\ redis_memory' = [redis_memory EXCEPT ![loc[p].sid] =
                        TurnCount(loc[p].memory) + 1]
  /\ IF ok
       THEN /\ tx' = [tx EXCEPT ![p].messages = @ + 2]
            /\ loc' = [loc EXCEPT ![p].input_tokens = tok[1],
                                  ![p].output_tokens = tok[2],
                                  ![p].escalation_required = FALSE,
                                  ![p].reply = "llm",
                                  ![p].output = [intent_type |-> "domain_query",
                                                 escalation_reason |-> "none",
                                                 source_chunks |-> loc[p].results]]
            /\ pc' = [pc EXCEPT ![p] = "rec_in"]
       ELSE /\ loc' = [loc EXCEPT ![p].reply = "failed"]
            /\ pc' = [pc EXCEPT ![p] = "raise"]
            /\ UNCHANGED tx
  /\ UNCHANGED <<now, sessions, billing_events, messages, redis_billing,
                 redis_ttl, hooks, metered, flushed, used>>

\* the RAG composition call: on success the turn is appended to the memory
\* and the two messages are persisted; a failure of the call is raised
TurnRag(p, ok, tok) ==
  /\ UNCHANGED kbvars
  /\ pc[p] = "rag"
  /\ IF ok
       THEN /\ redis_memory' = [redis_memory EXCEPT ![loc[p].sid] =
                                  TurnCount(loc[p].memory) + 1]
            /\ tx' = [tx EXCEPT ![p].messages = @ + 2]
            /\ loc' = [loc EXCEPT ![p].input_tokens = tok[1],
                                  ![p].output_tokens = tok[2],
                                  ![p].escalation_required = FALSE,
                                  ![p].reply = "llm",
                                  ![p].output = [intent_type |-> "domain_query",
                                                 escalation_reason |-> "none",
                                                 source_chunks |-> loc[p].results]]
            /\ pc' = [pc EXCEPT ![p] = "rec_in"]
       ELSE /\ loc' = [loc EXCEPT ![p].reply = "failed"]
            /\ pc' = [pc EXCEPT ![p] = "raise"]
            /\ UNCHANGED <<redis_memory, tx>>
  /\ UNCHANGED <<now, sessions, billing_events, messages, redis_billing,
                 redis_ttl, hooks, metered, flushed, used>>

\* the exception leaves send_message: get_async_session rolls back and the
\* request ends with an error
HandlerRaise(p) ==
  /\ UNCHANGED kbvars
  /\ pc[p] = "raise"
  /\ tx' = [tx EXCEPT ![p] = NoTx]
  /\ loc' = [loc EXCEPT ![p] = NoLoc]
  /\ pc' = [pc EXCEPT ![p] = "idle"]
  /\ UNCHANGED <<now, sessions, billing_events, messages, redis_billing,
                 redis_ttl, redis_memory, hooks, metered, flushed, used>>

\* -------------------------------------- BillingService.auto_close_idle_sessions
\* variant: the SELECT does not filter on the status
IdleSessions_mut ==
  {s \in Sessions : /\ sessions[s].exists
                    /\ sessions[s].started_at < now - idle_session_timeout_minutes}

\* the sessions the sweep's SELECT returns
IdleSessions ==
  {s \in Sessions : /\ sessions[s].exists
                    /\ sessions[s].status = "active"
                    /\ sessions[s].started_at < now - idle_session_timeout_minutes}

\* _idle_session_cleanup opens a database session and runs the SELECT
SweepSelect ==
  /\ UNCHANGED kbvars
  /\ pc[Sweeper] = "idle"
  /\ used.sweeps < MaxSweeps
  /\ loc' = [loc EXCEPT ![Sweeper] = [NoLoc EXCEPT !.op = "sweep",
                                                   !.todo = IdleSessions,
                                                   !.selected = IdleSessions]]
  /\ tx' = [tx EXCEPT ![Sweeper] = NoTx]
  /\ pc' = [pc EXCEPT ![Sweeper] = "sweep_loop"]
  /\ used' = [used EXCEPT !.sweeps = @ + 1]
  /\ UNCHANGED <<now, sessions, billing_events, messages, redis_billing,
                 redis_ttl, redis_memory, hooks, metered, flushed>>

\* next session of the loop: UPDATE status and ended_at, flush.  Once a
\* statement of the transaction has failed the UPDATE raises as well and the
\* except clause goes on with the next session.
SweepUpdate(s) ==
  /\ UNCHANGED kbvars
  /\ pc[Sweeper] = "sweep_loop"
  /\ s \in loc[Sweeper].todo
  /\ IF tx[Sweeper].ok
       THEN /\ tx' = [tx EXCEPT ![Sweeper].resolved[s] = now]
            /\ loc' = [loc EXCEPT ![Sweeper].sid = s, ![Sweeper].todo = @ \ {s}]
            /\ pc' = [pc EXCEPT ![Sweeper] = "cls_rd_in"]
       ELSE /\ loc' = [loc EXCEPT ![Sweeper].sid = s, ![Sweeper].todo = @ \ {s}]
            /\ UNCHANGED <<tx, pc>>
  /\ UNCHANGED <<now, sessions, billing_events, messages, redis_billing,
                 redis_ttl, redis_memory, hooks, metered, flushed, used>>

\* a failed statement aborts the transaction: its pending writes are lost and
\* nothing of it can be committed any more
Aborted == [NoTx EXCEPT !.ok = FALSE]

\* the UPDATE of session s raises (database error)
SweepUpdateFails(s) ==
  /\ UNCHANGED kbvars
  /\ pc[Sweeper] = "sweep_loop"
  /\ s \in loc[Sweeper].todo
  /\ tx[Sweeper].ok
  /\ used.faults < MaxFaults
  /\ tx' = [tx EXCEPT ![Sweeper] = Aborted]
  /\ loc' = [loc EXCEPT ![Sweeper].sid = s, ![Sweeper].todo = @ \ {s},
                        ![Sweeper].failed = @ \cup {s}]
  /\ used' = [used EXCEPT !.faults = @ + 1]
  /\ UNCHANGED <<now, sessions, billing_events, messages, redis_billing,
                 redis_ttl, redis_memory, pc, hooks, metered, flushed>>

\* a Redis command of close_session raises (counter read or key delete)
SweepRedisFails ==
  /\ UNCHANGED kbvars
  /\ pc[Sweeper] \in {"cls_rd_in", "cls_rd_out", "cls_rd_cnt",
                      "cls_del_in", "cls_del_out", "cls_del_cnt"}
  /\ used.faults < MaxFaults
  /\ loc' = [loc EXCEPT ![Sweeper].failed = @ \cup {loc[Sweeper].sid}]
  /\ pc' = [pc EXCEPT ![Sweeper] = "sweep_loop"]
  /\ used' = [used EXCEPT !.faults = @ + 1]
  /\ UNCHANGED <<now, sessions, billing_events, messages, redis_billing,
                 redis_ttl, redis_memory, tx, hooks, metered, flushed>>

\* the flush of the BillingEvent insert raises (database error)
SweepInsertFails ==
  /\ UNCHANGED kbvars
  /\ pc[Sweeper] = "cls_insert"
  /\ used.faults < MaxFaults
  /\ tx' = [tx EXCEPT ![Sweeper] = Aborted]
  /\ loc' = [loc EXCEPT ![Sweeper].failed = @ \cup {loc[Sweeper].sid}]
  /\ pc' = [pc EXCEPT ![Sweeper] = "sweep_loop"]
  /\ used' = [used EXCEPT !.faults = @ + 1]
  /\ UNCHANGED <<now, sessions, billing_events, messages, redis_billing,
                 redis_ttl, redis_memory, hooks, metered, flushed>>

\* the loop is over; _idle_session_cleanup commits (nothing, if aborted)
SweepCommit ==
  /\ UNCHANGED kbvars
  /\ pc[Sweeper] = "sweep_loop"
  /\ loc[Sweeper].todo = {}
  /\ IF tx[Sweeper].ok
       THEN /\ sessions' = CommitSessions(Sweeper)
            /\ billing_events' = CommitEvents(Sweeper)
       ELSE UNCHANGED <<sessions, billing_events>>
  /\ tx' = [tx EXCEPT ![Sweeper] = NoTx]
  /\ loc' = [loc EXCEPT ![Sweeper] = NoLoc]
  /\ pc' = [pc EXCEPT ![Sweeper] = "idle"]
  /\ UNCHANGED <<now, messages, redis_billing, redis_ttl, redis_memory, hooks,
                 metered, flushed, used>>

\* -------------------------------- EscalationService._fire_webhook_with_retries
backoff_seconds == <<1, 2, 4>>

\* variant: a 2xx response does not end the task
HookPost_mut(i, ok) ==
  /\ UNCHANGED kbvars
  /\ i \in 1..Len(hooks)
  /\ hooks[i].state = "ready"
  /\ hooks' = [hooks EXCEPT ![i] =
       IF ok THEN [@ EXCEPT !.state = "exhausted", !.delivered = TRUE,
                            !.posts = @ + 1]
       ELSE IF @.attempt < max_retries - 1
         THEN [@ EXCEPT !.state = "sleeping", !.posts = @ + 1,
                        !.waits = Append(@, backoff_seconds[hooks[i].attempt + 1])]
       ELSE [@ EXCEPT !.state = "exhausted", !.posts = @ + 1]]
  /\ UNCHANGED <<now, sessions, billing_events, messages, redis_billing,
                 redis_ttl, redis_memory, pc, loc, tx, metered, flushed, used>>

\* one POST attempt; ok says whether it returned a 2xx response in time
HookPost(i, ok) ==
  /\ UNCHANGED kbvars
  /\ i \in 1..Len(hooks)
  /\ hooks[i].state = "ready"
  /\ hooks' = [hooks EXCEPT ![i] =
       IF ok THEN [@ EXCEPT !.state = "done", !.delivered = TRUE,
                            !.posts = @ + 1]
       ELSE IF @.attempt < max_retries - 1
         THEN [@ EXCEPT !.state = "sleeping", !.posts = @ + 1,
                        !.waits = Append(@, backoff_seconds[hooks[i].attempt + 1])]
       ELSE [@ EXCEPT !.state = "exhausted", !.posts = @ + 1]]
  /\ UNCHANGED <<now, sessions, billing_events, messages, redis_billing,
                 redis_ttl, redis_memory, pc, loc, tx, metered, flushed, used>>

\* variant: the loop does not advance to its next attempt
HookWake_mut(i) ==
  /\ UNCHANGED kbvars
  /\ i \in 1..Len(hooks)
  /\ hooks[i].state = "sleeping"
  /\ hooks' = [hooks EXCEPT ![i].state = "ready"]
  /\ UNCHANGED <<now, sessions, billing_events, messages, redis_billing,
                 redis_ttl, redis_memory, pc, loc, tx, metered, flushed, used>>

\* asyncio.sleep returns, next attempt
HookWake(i) ==
  /\ UNCHANGED kbvars
  /\ i \in 1..Len(hooks)
  /\ hooks[i].state = "sleeping"
  /\ hooks' = [hooks EXCEPT ![i].state = "ready", ![i].attempt = @ + 1]
  /\ UNCHANGED <<now, sessions, billing_events, messages, redis_billing,
                 redis_ttl, redis_memory, pc, loc, tx, metered, flushed, used>>

\* variant: a failure of the compensating insert leaves the task
HookCompensate_mut(i, ok) ==
  /\ UNCHANGED kbvars
  /\ i \in 1..Len(hooks)
  /\ hooks[i].state = "exhausted"
  /\ billing_events' =
       IF ok THEN [billing_events EXCEPT ![hooks[i].session_id] = Append(@,
                     BillingEvent(hooks[i].session_id,
                                  "escalation_webhook_failed", 0, 0, 0))]
       ELSE billing_events
  /\ hooks' = [hooks EXCEPT ![i].state = "done", ![i].escaped = ~ok,
                           ![i].inserted = IF ok THEN "ok" ELSE "failed"]
  /\ UNCHANGED <<now, sessions, messages, redis_billing, redis_ttl,
                 redis_memory, pc, loc, tx, metered, flushed, used>>

\* all retries exhausted: insert the compensating event in a session of its
\* own and commit; ok says whether that succeeds (a failure is logged)
HookCompensate(i, ok) ==
  /\ UNCHANGED kbvars
  /\ i \in 1..Len(hooks)
  /\ hooks[i].state = "exhausted"
  /\ billing_events' =
       IF ok THEN [billing_events EXCEPT ![hooks[i].session_id] = Append(@,
                     BillingEvent(hooks[i].session_id,
                                  "escalation_webhook_failed", 0, 0, 0))]
       ELSE billing_events
  /\ hooks' = [hooks EXCEPT ![i].state = "done",
                           ![i].inserted = IF ok THEN "ok" ELSE "failed"]
  /\ UNCHANGED <<now, sessions, messages, redis_billing, redis_ttl,
                 redis_memory, pc, loc, tx, metered, flushed, used>>

\* ------------------------------------------------------- specifications
Billing(p) ==
  \/ RecordInput(p)
  \/ RecordOutput(p)
  \/ RecordCount(p)
  \/ RecordExpire(p)
  \/ CloseReadInput(p)
  \/ CloseReadOutput(p)
  \/ CloseReadCount(p)
  \/ CloseInsert(p)
  \/ CloseDeleteInput(p)
  \/ CloseDeleteOutput(p)
  \/ CloseDeleteCount(p)

\* ----------------------------------------------------- knowledge ingestion
\* the file extensions an upload can have
Extensions == {"pdf", "txt", "exe"}

\* the steps of IngestionService.run an exception can leave from
Stages == {"parse", "chunk", "enrich", "embed_and_store"}

\* the positions of a task inside IngestionService.run
Running == {"queued", "parse", "chunk", "enrich", "embed", "upsert",
            "mark_ready", "invalidate", "except"}

\* the metadata generate_chunk_metadata can leave on a chunk: a summary or
\* none, and questions that are absent, a list of strings, or a list whose
\* items are not strings (the JSON of the model is stored as it was parsed)
ChunkMetadata == [summary : BOOLEAN, questions : {"none", "text", "malformed"}]

\* metadata generation failed for the chunk
NoMetadata == [summary |-> FALSE, questions |-> "none"]

\* the points of document d in the collection of its tenant
PointsOf(d) ==
  {pt \in qdrant[_collection_name(documents[d].tenant_id)] : pt.document_id = d}

\* an exception inside the try of run: control goes to the except clause,
\* which uses none of the locals of the try
Fail(d, error) ==
  ing' = [ing EXCEPT ![d] = [NoRun EXCEPT !.pc = "except", !.error = error,
                                          !.tenant_id = ing[d].tenant_id,
                                          !.version = ing[d].version]]

\* ingest_document: the extension is checked, the row is created for the
\* tenant of the request with status processing and the background task is
\* added with the row's version
IngestDocument(d, tenant, ext) ==
  /\ ing[d].pc = "none"
  /\ \A e \in 1..(d - 1) : ing[e].pc # "none"
  /\ IF ext \in _ALLOWED_EXTENSIONS
       THEN /\ documents' = [documents EXCEPT ![d] =
                               [NoDoc EXCEPT !.exists = TRUE,
                                             !.tenant_id = tenant]]
            /\ ing' = [ing EXCEPT ![d].pc = "queued",
                                  ![d].tenant_id = tenant,
                                  ![d].version = NoDoc.version]
       ELSE /\ ing' = [ing EXCEPT ![d].pc = "rejected"]
            /\ UNCHANGED documents
  /\ UNCHANGED <<qdrant, bm25_cache, ret, cleanups>>
  /\ UNCHANGED <<chatvars, chunkvars, scoring>>

\* run: mark as processing
MarkProcessing(d, ok) ==
  /\ ing[d].pc = "queued"
  /\ IF ok
       THEN /\ documents' = [documents EXCEPT ![d].status = "processing"]
            /\ ing' = [ing EXCEPT ![d].pc = "parse"]
       ELSE /\ Fail(d, "db_processing")
            /\ UNCHANGED documents
  /\ UNCHANGED <<qdrant, bm25_cache, ret, cleanups>>
  /\ UNCHANGED <<chatvars, chunkvars, scoring>>

\* step 1: parse_document
ParseDocument(d, n, ok) ==
  /\ ing[d].pc = "parse"
  /\ IF ok
       THEN ing' = [ing EXCEPT ![d].pc = "chunk", ![d].elements = n]
       ELSE Fail(d, "parse")
  /\ UNCHANGED <<documents, qdrant, bm25_cache, ret, cleanups>>
  /\ UNCHANGED <<chatvars, chunkvars, scoring>>

\* step 2: chunk_elements; no element gives no chunk
ChunkElements(d, k, ok) ==
  /\ ing[d].pc = "chunk"
  /\ ing[d].elements = 0 => k = 0
  /\ IF ok
       THEN ing' = [ing EXCEPT ![d].pc = "enrich", ![d].chunks = k,
                               ![d].emitted = k, ![d].elements = 0]
       ELSE Fail(d, "chunk")
  /\ UNCHANGED <<documents, qdrant, bm25_cache, ret, cleanups>>
  /\ UNCHANGED <<chatvars, chunkvars, scoring>>

\* step 3: generate_chunk_metadata sets the metadata of every chunk (empty
\* when the call or the JSON parse failed) and returns the list it was given
GenerateChunkMetadata(d, meta, ok) ==
  /\ ing[d].pc = "enrich"
  /\ meta \in [1..ing[d].chunks -> ChunkMetadata]
  /\ IF ok
       THEN ing' = [ing EXCEPT ![d].pc = "embed", ![d].meta = meta]
       ELSE Fail(d, "enrich")
  /\ UNCHANGED <<documents, qdrant, bm25_cache, ret, cleanups>>
  /\ UNCHANGED <<chatvars, chunkvars, scoring>>

\* the vector types embed_and_store builds a point of for a chunk: none when
\* the raw embedding failed, else raw, and summary and hypothetical when the
\* metadata is there and its embedding succeeded
BuiltTypes(metadata, embedded) ==
  IF "raw" \notin embedded THEN {}
  ELSE {"raw"}
       \cup (IF metadata.summary /\ "summary" \in embedded
               THEN {"summary"} ELSE {})
       \cup (IF metadata.questions = "text" /\ "hypothetical" \in embedded
               THEN {"hypothetical"} ELSE {})

\* " ".join(hypothetical_questions) is outside the try of the third vector:
\* it raises TypeError for a chunk whose raw vector was built and whose
\* questions are not strings
JoinRaises(meta, embedded) ==
  \E c \in DOMAIN meta :
    "raw" \in embedded[c] /\ meta[c].questions = "malformed"

\* the payload of a point, with the fields the filters and the claims read
Point(d, c, vtype) ==
  [chunk_id |-> <<d, ing[d].version, c>>, document_id |-> d,
   tenant_id |-> ing[d].tenant_id, document_version |-> ing[d].version,
   is_latest_version |-> TRUE, vector_type |-> vtype]

\* the list of points, chunk after chunk, in the order of _VECTOR_TYPES
PointList(d, built) ==
  LET n == Len(_VECTOR_TYPES)
      slots == [i \in 1..(n * Len(built)) |->
                  <<((i - 1) \div n) + 1, _VECTOR_TYPES[((i - 1) % n) + 1]>>]
      Built(slot) == slot[2] \in built[slot[1]]
      kept == SelectSeq(slots, Built)
  IN [i \in 1..Len(kept) |-> Point(d, kept[i][1], kept[i][2])]

\* variant: a failed raw embedding leaves embed_and_store as an exception
EmbedChunks_mut(d, embedded, ok) ==
  /\ ing[d].pc = "embed"
  /\ embedded \in [1..ing[d].chunks -> SUBSET VectorTypes]
  /\ IF /\ ok
        /\ ~JoinRaises(ing[d].meta, embedded)
        /\ \A c \in DOMAIN embedded : "raw" \in embedded[c]
       THEN LET built == [c \in 1..ing[d].chunks |->
                            BuiltTypes(ing[d].meta[c], embedded[c])]
                points == PointList(d, built)
            IN ing' = [ing EXCEPT ![d].embedded = embedded,
                                  ![d].built = built,
                                  ![d].points = points,
                                  ![d].offset = 0,
                                  ![d].pc = IF points # <<>> THEN "upsert"
                                            ELSE "mark_ready"]
       ELSE Fail(d, "embed_and_store")
  /\ UNCHANGED <<documents, qdrant, bm25_cache, ret, cleanups>>
  /\ UNCHANGED <<chatvars, chunkvars, scoring>>

\* step 4, embed_and_store up to the upsert: the collection is created if it
\* is missing (ok: that call succeeds), then the points of every chunk are
\* built; embedded[c] are the embedding calls that succeed for chunk c
EmbedChunks(d, embedded, ok) ==
  /\ ing[d].pc = "embed"
  /\ embedded \in [1..ing[d].chunks -> SUBSET VectorTypes]
  /\ IF ok /\ ~JoinRaises(ing[d].meta, embedded)
       THEN LET built == [c \in 1..ing[d].chunks |->
                            BuiltTypes(ing[d].meta[c], embedded[c])]
                points == PointList(d, built)
            IN ing' = [ing EXCEPT ![d].embedded = embedded,
                                  ![d].built = built,
                                  ![d].points = points,
                                  ![d].offset = 0,
                                  ![d].pc = IF points # <<>> THEN "upsert"
                                            ELSE "mark_ready"]
       ELSE Fail(d, "embed_and_store")
  /\ UNCHANGED <<documents, qdrant, bm25_cache, ret, cleanups>>
  /\ UNCHANGED <<chatvars, chunkvars, scoring>>

\* the smaller of two numbers
Min(a, b) == IF a < b THEN a ELSE b

\* step 4, the batch upsert loop of embed_and_store
UpsertBatch(d, ok) ==
  /\ ing[d].pc = "upsert"
  /\ LET size == Min(_EMBED_BATCH_SIZE, Len(ing[d].points) - ing[d].offset)
         batch == SubSeq(ing[d].points, ing[d].offset + 1,
                         ing[d].offset + size)
         name == _collection_name(ing[d].tenant_id)
     IN IF ok
          THEN /\ qdrant' = [qdrant EXCEPT ![name] =
                               @ \cup {batch[i] : i \in 1..Len(batch)}]
               /\ ing' = [ing EXCEPT
                    ![d].offset = @ + size,
                    ![d].pc = IF ing[d].offset + size >= Len(ing[d].points)
                                THEN "mark_ready" ELSE "upsert"]
          ELSE /\ Fail(d, "embed_and_store")
               /\ UNCHANGED qdrant
  /\ UNCHANGED <<documents, bm25_cache, ret, cleanups>>
  /\ UNCHANGED <<chatvars, chunkvars, scoring>>

\* variant: chunk_count is the number of points
MarkReady_mut(d, ok) ==
  /\ ing[d].pc = "mark_ready"
  /\ IF ok
       THEN /\ documents' = [documents EXCEPT
                               ![d].status = "ready",
                               ![d].chunk_count = Len(ing[d].points)]
            /\ ing' = [ing EXCEPT ![d].pc = "invalidate"]
       ELSE /\ Fail(d, "db_ready")
            /\ UNCHANGED documents
  /\ UNCHANGED <<qdrant, bm25_cache, ret, cleanups>>
  /\ UNCHANGED <<chatvars, chunkvars, scoring>>

\* run: mark as ready, with chunk_count=len(chunks)
MarkReady(d, ok) ==
  /\ ing[d].pc = "mark_ready"
  /\ IF ok
       THEN /\ documents' = [documents EXCEPT ![d].status = "ready",
                                              ![d].chunk_count = ing[d].chunks]
            /\ ing' = [ing EXCEPT ![d].pc = "invalidate"]
       ELSE /\ Fail(d, "db_ready")
            /\ UNCHANGED documents
  /\ UNCHANGED <<qdrant, bm25_cache, ret, cleanups>>
  /\ UNCHANGED <<chatvars, chunkvars, scoring>>

\* run: invalidate_bm25_cache deletes the key (RedisClient.delete raises when
\* Redis fails), then run returns the number of points
InvalidateCache(d, ok) ==
  /\ ing[d].pc = "invalidate"
  /\ IF ok
       THEN /\ bm25_cache' = [bm25_cache EXCEPT
                                ![_bm25_cache_key(ing[d].tenant_id)] = {}]
            /\ ing' = [ing EXCEPT ![d].pc = "returned",
                                  ![d].result = "returned",
                                  ![d].total = Len(ing[d].points),
                                  ![d].invalidated = documents[d].status]
       ELSE /\ Fail(d, "redis")
            /\ UNCHANGED bm25_cache
  /\ UNCHANGED <<documents, qdrant, ret, cleanups>>
  /\ UNCHANGED <<chatvars, chunkvars, scoring>>

\* variant: the exception of the status write leaves run
RunExcept_mut(d, ok) ==
  /\ ing[d].pc = "except"
  /\ IF ok
       THEN documents' = [documents EXCEPT ![d].status = "failed",
                                           ![d].error_message = ing[d].error]
       ELSE UNCHANGED documents
  /\ ing' = [ing EXCEPT ![d].pc = "raised",
                        ![d].written = ok,
                        ![d].result = IF ok THEN "IngestionError"
                                      ELSE "Exception",
                        ![d].cause = IF ok THEN ing[d].error
                                     ELSE "db_failed"]
  /\ UNCHANGED <<qdrant, bm25_cache, ret, cleanups>>
  /\ UNCHANGED <<chatvars, chunkvars, scoring>>

\* run's except clause: the guarded write of status failed with the error
\* message, then IngestionError is raised from the exception caught
RunExcept(d, ok) ==
  /\ ing[d].pc = "except"
  /\ IF ok
       THEN documents' = [documents EXCEPT ![d].status = "failed",
                                           ![d].error_message = ing[d].error]
       ELSE UNCHANGED documents
  /\ ing' = [ing EXCEPT ![d].pc = "raised",
                        ![d].written = ok,
                        ![d].result = "IngestionError",
                        ![d].cause = ing[d].error]
  /\ UNCHANGED <<qdrant, bm25_cache, ret, cleanups>>
  /\ UNCHANGED <<chatvars, chunkvars, scoring>>

\* _run_ingestion_background after run: commit, or log the exception; the
\* session and the temporary file are released
BackgroundEnd(d) ==
  /\ ing[d].pc \in {"returned", "raised"}
  /\ ing' = [ing EXCEPT ![d] = [NoRun EXCEPT !.pc = "done",
                                             !.tenant_id = ing[d].tenant_id,
                                             !.version = ing[d].version,
                                             !.result = ing[d].result,
                                             !.cause = ing[d].cause]]
  /\ UNCHANGED <<documents, qdrant, bm25_cache, ret, cleanups>>
  /\ UNCHANGED <<chatvars, chunkvars, scoring>>

\* what _get_or_build_bm25 puts in the cache entry on a miss: the payloads of
\* the latest raw points of the tenant's collection
Bm25Entry(tenant) ==
  {pt \in qdrant[_collection_name(tenant)] :
     pt.is_latest_version /\ pt.vector_type = "raw"}

\* a retrieval of the tenant builds the BM25 index and caches it
BuildBm25Cache(tenant) ==
  /\ bm25_cache[_bm25_cache_key(tenant)] = {}
  /\ Bm25Entry(tenant) # {}
  /\ bm25_cache' = [bm25_cache EXCEPT ![_bm25_cache_key(tenant)] =
                      Bm25Entry(tenant)]
  /\ UNCHANGED <<documents, qdrant, ing, ret, cleanups>>
  /\ UNCHANGED <<chatvars, chunkvars, scoring>>

\* the same value for each of the k chunks of a list
Uniform(k, value) == [c \in 1..k |-> value]

\* the metadata of a chunk whose generation succeeded
FullMetadata == [summary |-> TRUE, questions |-> "text"]

\* uploads of one tenant and their ingestion tasks
NextIngest ==
  \/ BuildBm25Cache("A")
  \/ \E d \in 1..MaxIngestDocs :
       \/ \E ext \in Extensions : IngestDocument(d, "A", ext)
       \/ \E ok \in BOOLEAN :
            \/ MarkProcessing(d, ok)
            \/ \E n \in 0..MaxElements : ParseDocument(d, n, ok)
            \/ \E k \in 0..MaxChunks : ChunkElements(d, k, ok)
            \/ \E m \in {NoMetadata, FullMetadata} :
                 GenerateChunkMetadata(d, Uniform(ing[d].chunks, m), ok)
            \/ \E types \in {VectorTypes, {"raw"}, {}} :
                 EmbedChunks(d, Uniform(ing[d].chunks, types), ok)
            \/ UpsertBatch(d, ok)
            \/ MarkReady(d, ok)
            \/ InvalidateCache(d, ok)
            \/ RunExcept(d, ok)
       \/ BackgroundEnd(d)

SpecIngest == Init /\ [][NextIngest]_vars

\* the first k entries of a list
Take(list, k) == [c \in 1..k |-> list[c]]

\* one ingestion task whose only failures are those of single chunks: every
\* metadata and every outcome of the embedding calls, chunk by chunk
NextEmbed ==
  \/ IngestDocument(1, "A", "pdf")
  \/ MarkProcessing(1, TRUE)
  \/ \E n \in 1..MaxElements : ParseDocument(1, n, TRUE)
  \/ \E k \in 1..MaxChunks : ChunkElements(1, k, TRUE)
  \/ \E meta \in [1..MaxChunks -> ChunkMetadata] :
       GenerateChunkMetadata(1, Take(meta, ing[1].chunks), TRUE)
  \/ \E embedded \in [1..MaxChunks -> SUBSET VectorTypes] :
       EmbedChunks(1, Take(embedded, ing[1].chunks), TRUE)
  \/ UpsertBatch(1, TRUE)
  \/ MarkReady(1, TRUE)
  \/ InvalidateCache(1, TRUE)
  \/ RunExcept(1, TRUE)
  \/ BackgroundEnd(1)

SpecEmbed == Init /\ [][NextEmbed]_vars

\* ------------------------------------------------------- deletion, retrieval
\* delete_document of a tenant's request: the row is selected by id and
\* tenant (404 when there is none), soft-deleted, the BM25 key of the tenant
\* is deleted before the response and the vector cleanup is scheduled; ok:
\* the cache invalidation succeeds, else the request fails and rolls back
DeleteDocument(d, tenant, ok) ==
  /\ documents[d].exists
  /\ IF documents[d].tenant_id = tenant /\ ok
       THEN /\ documents' = [documents EXCEPT ![d].is_active = FALSE]
            /\ bm25_cache' = [bm25_cache EXCEPT ![_bm25_cache_key(tenant)] = {}]
            /\ cleanups' = cleanups \cup {d}
       ELSE UNCHANGED <<documents, bm25_cache, cleanups>>
  /\ UNCHANGED <<qdrant, ing, ret>>
  /\ UNCHANGED <<chatvars, chunkvars, scoring>>

\* cleanup_vectors: delete_by_filter on document_id in the collection of the
\* tenant; a failure is logged
CleanupVectors(d, ok) ==
  /\ d \in cleanups
  /\ cleanups' = cleanups \ {d}
  /\ IF ok
       THEN qdrant' = [qdrant EXCEPT
                         ![_collection_name(documents[d].tenant_id)] =
                           {pt \in @ : pt.document_id # d}]
       ELSE UNCHANGED qdrant
  /\ UNCHANGED <<documents, bm25_cache, ing, ret>>
  /\ UNCHANGED <<chatvars, chunkvars, scoring>>

\* retrieve, up to the fast exit: the collection is created if it is missing
\* (created: that call succeeds, else its QdrantConnectionError leaves
\* retrieve); collection_point_count gives 0 when it fails (counted)
RetrieveStart(tenant, created, counted) ==
  /\ ret.pc = "idle"
  /\ ret' = IF ~created
              THEN [NoRet EXCEPT !.pc = "raised", !.tenant_id = tenant,
                                 !.failed = "create_collection"]
            ELSE IF ~counted \/ qdrant[_collection_name(tenant)] = {}
              THEN [NoRet EXCEPT !.pc = "returned", !.tenant_id = tenant]
            ELSE [NoRet EXCEPT
                    !.pc = "dense", !.tenant_id = tenant,
                    !.ready = {d \in Docs : /\ ing[d].tenant_id = tenant
                                            /\ ing[d].result = "returned"}]
  /\ UNCHANGED <<documents, qdrant, bm25_cache, ing, cleanups>>
  /\ UNCHANGED <<chatvars, chunkvars, scoring>>

\* the hits of the three searches of _dense_retrieval: the latest points of
\* the tenant's collection whose vector type matched the query
DenseHits(tenant, matched) ==
  {pt \in qdrant[_collection_name(tenant)] :
     pt.is_latest_version /\ pt.vector_type \in matched}

\* best_by_chunk: one hit per chunk_id, the one of the best scoring type
\* when the chunk has a hit of it
BestByChunk(hits, best) ==
  {pt \in hits :
     \/ pt.vector_type = best
     \/ /\ \A other \in hits :
             other.chunk_id = pt.chunk_id => other.vector_type # best
        /\ pt = CHOOSE first \in hits : first.chunk_id = pt.chunk_id}

\* _dense_retrieval: the query is embedded and searched per vector type; an
\* exception of either call leaves retrieve (ok: both succeed)
RetrieveDense(matched, best, ok) ==
  /\ ret.pc = "dense"
  /\ best \in matched \/ matched = {}
  /\ ret' = IF ok
              THEN [ret EXCEPT !.pc = "sparse",
                               !.dense = BestByChunk(
                                 DenseHits(ret.tenant_id, matched), best)]
              ELSE [NoRet EXCEPT !.pc = "raised", !.tenant_id = ret.tenant_id,
                                 !.failed = "dense"]
  /\ UNCHANGED <<documents, qdrant, bm25_cache, ing, cleanups>>
  /\ UNCHANGED <<chatvars, chunkvars, scoring>>

\* _sparse_retrieval with _get_or_build_bm25: the key of the tenant is read
\* (read: the read succeeds); a value that deserialises is the index, else
\* the raw points are scrolled (scrolled), the index is built and stored
\* (stored: a failed store is logged); scored: the query scores above zero
RetrieveSparse(read, usable, scrolled, stored, scored) ==
  /\ ret.pc = "sparse"
  /\ LET key == _bm25_cache_key(ret.tenant_id)
         hit == bm25_cache[key] # {} /\ usable
         entry == IF hit THEN bm25_cache[key] ELSE Bm25Entry(ret.tenant_id)
     IN IF ~read \/ (~hit /\ ~scrolled)
          THEN /\ ret' = [NoRet EXCEPT !.pc = "raised",
                                       !.tenant_id = ret.tenant_id,
                                       !.failed = IF read THEN "scroll"
                                                  ELSE "cache_read"]
               /\ UNCHANGED bm25_cache
          ELSE /\ ret' = [ret EXCEPT !.pc = "rerank",
                                     !.sparse = IF scored THEN entry ELSE {}]
               /\ bm25_cache' = IF ~hit /\ entry # {} /\ stored
                                  THEN [bm25_cache EXCEPT ![key] = entry]
                                  ELSE bm25_cache
  /\ UNCHANGED <<documents, qdrant, ing, cleanups>>
  /\ UNCHANGED <<chatvars, chunkvars, scoring>>

\* _reciprocal_rank_fusion: one result per chunk_id, the dense one first
Merged(dense, sparse) ==
  dense \cup {pt \in sparse : \A hit \in dense : hit.chunk_id # pt.chunk_id}

\* _rerank or, when the reranker fails, _fallback_rank: at most
\* _RERANK_TOP_N of the merged candidates; retrieve returns them
RetrieveRerank ==
  /\ ret.pc = "rerank"
  /\ LET merged == Merged(ret.dense, ret.sparse)
         size == Min(_RERANK_TOP_N, Cardinality(merged))
     IN \E ranked \in SUBSET merged :
          /\ Cardinality(ranked) = size
          /\ ret' = [ret EXCEPT !.pc = "returned", !.results = ranked]
  /\ UNCHANGED <<documents, qdrant, bm25_cache, ing, cleanups>>
  /\ UNCHANGED <<chatvars, chunkvars, scoring>>

\* the caller has the output or the exception
RetrieveEnd ==
  /\ ret.pc \in {"returned", "raised"}
  /\ ret' = NoRet
  /\ UNCHANGED <<documents, qdrant, bm25_cache, ing, cleanups>>
  /\ UNCHANGED <<chatvars, chunkvars, scoring>>

\* no knowledge-base operation is in progress
KbIdle ==
  /\ ret.pc = "idle"
  /\ \A d \in Docs : ing[d].pc \in {"none", "rejected", "done"}

\* the knowledge base of two tenants: uploads, deletions and retrievals
NextKb ==
  \/ \E d \in Docs :
       \/ \E tenant \in Tenants :
            \/ KbIdle /\ IngestDocument(d, tenant, "pdf")
            \/ KbIdle /\ DeleteDocument(d, tenant, TRUE)
       \/ MarkProcessing(d, TRUE)
       \/ ParseDocument(d, 1, TRUE)
       \/ ChunkElements(d, 1, TRUE)
       \/ GenerateChunkMetadata(d, Uniform(ing[d].chunks, FullMetadata), TRUE)
       \/ EmbedChunks(d, Uniform(ing[d].chunks, VectorTypes), TRUE)
       \/ \E ok \in BOOLEAN :
            \/ UpsertBatch(d, ok)
            \/ KbIdle /\ CleanupVectors(d, ok)
       \/ MarkReady(d, TRUE)
       \/ InvalidateCache(d, TRUE)
       \/ RunExcept(d, TRUE)
       \/ BackgroundEnd(d)
  \/ \E tenant \in Tenants, created, counted \in BOOLEAN :
       KbIdle /\ RetrieveStart(tenant, created, counted)
  \/ \E matched \in SUBSET VectorTypes, best \in VectorTypes, ok \in BOOLEAN :
       RetrieveDense(matched, best, ok)
  \/ \E read, usable, scrolled, stored, scored \in BOOLEAN :
       RetrieveSparse(read, usable, scrolled, stored, scored)
  \/ RetrieveRerank
  \/ RetrieveEnd

SpecKb == Init /\ [][NextKb]_vars

\* ------------------------------------------- the sparse stage, step by step
\* _get_or_build_bm25 awaits Redis and Qdrant in turn; other coroutines run
\* at each await.  The read of the cache key (read: it succeeds): a value
\* that deserialises (usable) is the index; one that does not is logged and
\* treated as a miss
SparseRead(read, usable) ==
  /\ ret.pc = "sparse"
  /\ LET cached_raw == bm25_cache[_bm25_cache_key(ret.tenant_id)]
     IN ret' = IF ~read
                 THEN [NoRet EXCEPT !.pc = "raised",
                                    !.tenant_id = ret.tenant_id,
                                    !.failed = "cache_read"]
               ELSE IF cached_raw # {} /\ usable
                 THEN [ret EXCEPT !.pc = "score", !.cached = "hit",
                                  !.entry = cached_raw]
               ELSE [ret EXCEPT !.pc = "scroll",
                                !.cached = IF cached_raw = {} THEN "miss"
                                           ELSE "undecodable"]
  /\ UNCHANGED <<documents, qdrant, bm25_cache, ing, cleanups>>
  /\ UNCHANGED <<chatvars, chunkvars, scoring>>

\* variant: a value that does not deserialise ends the sparse stage
SparseScroll_mut(scrolled) ==
  /\ ret.pc = "scroll"
  /\ ret' = IF ~scrolled
              THEN [NoRet EXCEPT !.pc = "raised", !.tenant_id = ret.tenant_id,
                                 !.failed = "scroll"]
            ELSE IF Bm25Entry(ret.tenant_id) = {} \/ ret.cached = "undecodable"
              THEN [ret EXCEPT !.pc = "rerank", !.sparse = {}]
            ELSE [ret EXCEPT !.pc = "store",
                             !.entry = Bm25Entry(ret.tenant_id)]
  /\ UNCHANGED <<documents, qdrant, bm25_cache, ing, cleanups>>
  /\ UNCHANGED <<chatvars, chunkvars, scoring>>

\* the miss: scroll_all pages through the latest raw points (scrolled: it
\* succeeds); no points, no index: _sparse_retrieval returns []
SparseScroll(scrolled) ==
  /\ ret.pc = "scroll"
  /\ ret' = IF ~scrolled
              THEN [NoRet EXCEPT !.pc = "raised", !.tenant_id = ret.tenant_id,
                                 !.failed = "scroll"]
            ELSE IF Bm25Entry(ret.tenant_id) = {}
              THEN [ret EXCEPT !.pc = "rerank", !.sparse = {}]
            ELSE [ret EXCEPT !.pc = "store",
                             !.entry = Bm25Entry(ret.tenant_id)]
  /\ UNCHANGED <<documents, qdrant, bm25_cache, ing, cleanups>>
  /\ UNCHANGED <<chatvars, chunkvars, scoring>>

\* the index built from the points is stored under the key (stored: the
\* write succeeds, a failure is logged)
SparseStore(stored) ==
  /\ ret.pc = "store"
  /\ bm25_cache' = IF stored
                     THEN [bm25_cache EXCEPT
                             ![_bm25_cache_key(ret.tenant_id)] = ret.entry]
                     ELSE bm25_cache
  /\ ret' = [ret EXCEPT !.pc = "score"]
  /\ UNCHANGED <<documents, qdrant, ing, cleanups>>
  /\ UNCHANGED <<chatvars, chunkvars, scoring>>

\* _sparse_retrieval scores the query against the index (scored: some chunk
\* scores above zero)
SparseScore(scored) ==
  /\ ret.pc = "score"
  /\ ret' = [ret EXCEPT !.pc = "rerank",
                        !.sparse = IF scored THEN ret.entry ELSE {}]
  /\ UNCHANGED <<documents, qdrant, bm25_cache, ing, cleanups>>
  /\ UNCHANGED <<chatvars, chunkvars, scoring>>

\* no ingestion task is running
NoIngestion == \A d \in Docs : ing[d].pc \in {"none", "rejected", "done"}

\* one tenant: uploads one after the other, deletions, and retrievals that
\* run beside the ingestion tasks and the vector cleanups
NextCache ==
  \/ \E d \in Docs :
       \/ NoIngestion /\ IngestDocument(d, "A", "pdf")
       \/ MarkProcessing(d, TRUE)
       \/ ParseDocument(d, 1, TRUE)
       \/ ChunkElements(d, 1, TRUE)
       \/ GenerateChunkMetadata(d, Uniform(ing[d].chunks, NoMetadata), TRUE)
       \/ EmbedChunks(d, Uniform(ing[d].chunks, {"raw"}), TRUE)
       \/ UpsertBatch(d, TRUE)
       \/ MarkReady(d, TRUE)
       \/ InvalidateCache(d, TRUE)
       \/ BackgroundEnd(d)
       \/ DeleteDocument(d, "A", TRUE)
       \/ CleanupVectors(d, TRUE)
  \/ RetrieveStart("A", TRUE, TRUE)
  \/ RetrieveDense(VectorTypes, "raw", TRUE)
  \/ \E usable \in BOOLEAN : SparseRead(TRUE, usable)
  \/ SparseScroll(TRUE)
  \/ \E stored \in BOOLEAN : SparseStore(stored)
  \/ \E scored \in BOOLEAN : SparseScore(scored)
  \/ RetrieveRerank
  \/ RetrieveEnd

SpecCache == Init /\ [][NextCache]_vars

\* --------------------------------------------------------------- versions
\* IngestionService.run is called again for a document whose task has ended,
\* with the next document_version (run takes the id and the version from
\* its caller)
Reingest(d) ==
  /\ ing[d].pc = "done"
  /\ documents[d].exists
  /\ documents[d].version < MaxVersions
  /\ documents' = [documents EXCEPT ![d].version = @ + 1]
  /\ ing' = [ing EXCEPT ![d] = [NoRun EXCEPT !.pc = "queued",
                                             !.tenant_id = ing[d].tenant_id,
                                             !.version = ing[d].version + 1]]
  /\ UNCHANGED <<qdrant, bm25_cache, ret, cleanups>>
  /\ UNCHANGED <<chatvars, chunkvars, scoring>>

\* the runs of one document, version after version
NextVersion ==
  \/ IngestDocument(1, "A", "pdf")
  \/ Reingest(1)
  \/ MarkProcessing(1, TRUE)
  \/ ParseDocument(1, 1, TRUE)
  \/ \E k \in 1..MaxChunks : ChunkElements(1, k, TRUE)
  \/ \E m \in {NoMetadata, FullMetadata} :
       GenerateChunkMetadata(1, Uniform(ing[1].chunks, m), TRUE)
  \/ \E types \in {VectorTypes, {"raw"}} :
       EmbedChunks(1, Uniform(ing[1].chunks, types), TRUE)
  \/ \E ok \in BOOLEAN : UpsertBatch(1, ok)
  \/ MarkReady(1, TRUE)
  \/ InvalidateCache(1, TRUE)
  \/ RunExcept(1, TRUE)
  \/ BackgroundEnd(1)

SpecVersion == Init /\ [][NextVersion]_vars

\* ------------------------------------------------------------- chunking
\* the element types of the parser the chunker tells apart; NarrativeText
\* stands for every other type
ElementTypes == {"Title", "NarrativeText", "Table", "ListItem"}

\* the numbers of tokens of an element: small, half of the maximum, over the
\* maximum, over two windows
TokenSizes == {40, 250, 600, 1100}

\* a text is the list of its parts: the text of element el, or what is left
\* of it in a window (whole: all of it is there), and, with el = 0, the
\* separators and bullets the chunker puts between elements
Part(el, tokens) == [el |-> el, tokens |-> tokens, whole |-> TRUE]

\* "\n\n", "\n" and the bullet, a token each
Separator == Part(0, 1)

\* _count_tokens: the tokens of the parts add up
RECURSIVE _count_tokens(_)
_count_tokens(text) ==
  IF text = <<>> THEN 0
  ELSE Head(text).tokens + _count_tokens(Tail(text))

\* parse_document: the current section heading is that of the last Title
\* (0: none yet) and goes with every element
ParsedElements(raw) ==
  [i \in 1..Len(raw) |->
     [index |-> i, element_type |-> raw[i].element_type,
      tokens |-> raw[i].tokens,
      section_heading |->
        IF \E j \in 1..i : raw[j].element_type = "Title"
          THEN CHOOSE j \in 1..i :
                 /\ raw[j].element_type = "Title"
                 /\ \A k \in (j + 1)..i : raw[k].element_type # "Title"
          ELSE 0]]

\* the text of an element
ElementText(el) == <<Part(el.index, el.tokens)>>

_LogicalBlock(text, element_type, section_heading, is_atomic) ==
  [text |-> text, token_count |-> _count_tokens(text),
   element_type |-> element_type, section_heading |-> section_heading,
   is_atomic |-> is_atomic]

\* the last element of the run of ListItems that starts at i
RECURSIVE ListEnd(_, _)
ListEnd(elements, i) ==
  IF i + 1 <= Len(elements) /\ elements[i + 1].element_type = "ListItem"
    THEN ListEnd(elements, i + 1) ELSE i

\* the bullet-prefixed lines of the ListItems i..j
RECURSIVE ListText(_, _, _)
ListText(elements, i, j) ==
  <<Separator>> \o ElementText(elements[i])
  \o (IF i < j THEN <<Separator>> \o ListText(elements, i + 1, j) ELSE <<>>)

\* variant: a Title is never merged with the element after it
TitleMerges_mut(elements, i) == FALSE

\* a Title is merged with the immediately following non-Title element
TitleMerges(elements, i) ==
  i + 1 <= Len(elements) /\ elements[i + 1].element_type # "Title"

\* _create_logical_blocks, from element i on
RECURSIVE BlocksFrom(_, _)
BlocksFrom(elements, i) ==
  IF i > Len(elements) THEN <<>>
  ELSE LET el == elements[i]
       IN CASE el.element_type = "Table" ->
                 <<_LogicalBlock(ElementText(el), "Table",
                                 el.section_heading, TRUE)>>
                 \o BlocksFrom(elements, i + 1)
            [] el.element_type = "Title" ->
                 IF TitleMerges(elements, i)
                   THEN <<_LogicalBlock(
                            ElementText(el) \o <<Separator>>
                              \o ElementText(elements[i + 1]),
                            elements[i + 1].element_type,
                            el.section_heading, TRUE)>>
                        \o BlocksFrom(elements, i + 2)
                   ELSE <<_LogicalBlock(ElementText(el), "Title",
                                        el.section_heading, TRUE)>>
                        \o BlocksFrom(elements, i + 1)
            [] el.element_type = "ListItem" ->
                 <<_LogicalBlock(ListText(elements, i, ListEnd(elements, i)),
                                 "ListItem", el.section_heading, TRUE)>>
                 \o BlocksFrom(elements, ListEnd(elements, i) + 1)
            [] OTHER ->
                 <<_LogicalBlock(ElementText(el), el.element_type,
                                 el.section_heading, FALSE)>>
                 \o BlocksFrom(elements, i + 1)

_create_logical_blocks(elements) == BlocksFrom(elements, 1)

\* the number of tokens before part k of a text
RECURSIVE Offset(_, _)
Offset(text, k) ==
  IF k = 1 THEN 0 ELSE Offset(text, k - 1) + text[k - 1].tokens

\* the larger of two numbers
Max(a, b) == IF a > b THEN a ELSE b

\* token_ids[start:end] decoded: the parts the window reaches, each with
\* the tokens of it that are inside
Window(text, start, end) ==
  LET Inside(k) == Min(Offset(text, k) + text[k].tokens, end)
                   - Max(Offset(text, k), start)
      cut == [k \in 1..Len(text) |->
                [el |-> text[k].el,
                 tokens |-> Max(Inside(k), 0),
                 whole |-> text[k].whole /\ Inside(k) = text[k].tokens]]
      Reached(part) == part.tokens > 0
  IN SelectSeq(cut, Reached)

\* the loop of _split_text_with_overlap from a start on
RECURSIVE WindowsFrom(_, _)
WindowsFrom(text, start) ==
  LET total == _count_tokens(text)
      end == Min(start + _MAX_CHUNK_TOKENS, total)
  IN <<Window(text, start, end)>>
     \o (IF end >= total THEN <<>>
         ELSE WindowsFrom(text, end - _OVERLAP_TOKENS))

_split_text_with_overlap(text) ==
  IF _count_tokens(text) <= _MAX_CHUNK_TOKENS THEN <<text>>
  ELSE WindowsFrom(text, 0)

Chunk(text, token_count, element_type, section_heading) ==
  [text |-> text, token_count |-> token_count,
   element_type |-> element_type, section_heading |-> section_heading]

\* the chunks of the windows of a text that is over the maximum
SplitChunks(text, element_type, section_heading) ==
  LET subs == _split_text_with_overlap(text)
  IN [k \in 1..Len(subs) |->
        Chunk(subs[k], _count_tokens(subs[k]), element_type, section_heading)]

\* the buffer of chunk_elements before the first block
NoBuffer == [text |-> <<>>, tokens |-> 0, type |-> "NarrativeText",
             heading |-> 0]

\* variant: a buffer over the maximum is emitted as one chunk
Flushed_mut(buffer) ==
  IF buffer.text = <<>> THEN <<>>
  ELSE <<Chunk(buffer.text, buffer.tokens, buffer.type, buffer.heading)>>

\* the chunks _flush_buffer appends
Flushed(buffer) ==
  IF buffer.text = <<>> THEN <<>>
  ELSE IF buffer.tokens > _MAX_CHUNK_TOKENS
    THEN SplitChunks(buffer.text, buffer.type, buffer.heading)
  ELSE <<Chunk(buffer.text, buffer.tokens, buffer.type, buffer.heading)>>

\* the buffer _flush_buffer leaves
Emptied(buffer) == [buffer EXCEPT !.text = <<>>, !.tokens = 0]

\* the chunks appended for an atomic block
AtomicChunks(block) ==
  IF block.token_count > _MAX_CHUNK_TOKENS /\ block.element_type # "Table"
    THEN SplitChunks(block.text, block.element_type, block.section_heading)
    ELSE <<Chunk(block.text, block.token_count, block.element_type,
                 block.section_heading)>>

\* one pass of the loop of chunk_elements over a block: the buffer and the
\* chunks after it
BlockStep(block, buffer, chunks) ==
  LET changed == block.section_heading # buffer.heading /\ buffer.text # <<>>
      buffer1 == IF changed
                   THEN [Emptied(buffer) EXCEPT
                           !.heading = block.section_heading]
                   ELSE buffer
      chunks1 == IF changed THEN chunks \o Flushed(buffer) ELSE chunks
      full == buffer1.tokens + block.token_count > _MAX_CHUNK_TOKENS
      buffer2 == IF full
                   THEN [Emptied(buffer1) EXCEPT
                           !.heading = block.section_heading]
                   ELSE buffer1
      merged == IF buffer2.text # <<>>
                  THEN buffer2.text \o <<Separator>> \o block.text
                  ELSE block.text
  IN IF block.is_atomic
       THEN [buffer |-> [Emptied(buffer1) EXCEPT
                           !.heading = block.section_heading],
             chunks |-> chunks1 \o Flushed(buffer1) \o AtomicChunks(block)]
       ELSE [buffer |-> [buffer2 EXCEPT !.text = merged,
                                        !.tokens = _count_tokens(merged),
                                        !.type = block.element_type],
             chunks |-> IF full THEN chunks1 \o Flushed(buffer1)
                        ELSE chunks1]

\* the loop of chunk_elements from block k on, then the last flush
RECURSIVE ChunkBlocks(_, _, _, _)
ChunkBlocks(blocks, k, buffer, chunks) ==
  IF k > Len(blocks) THEN chunks \o Flushed(buffer)
  ELSE LET next == BlockStep(blocks[k], buffer, chunks)
       IN ChunkBlocks(blocks, k + 1, next.buffer, next.chunks)

chunk_elements(elements) ==
  ChunkBlocks(_create_logical_blocks(elements), 1, NoBuffer, <<>>)

\* the parser returns a list of elements
ParseElements(raw) ==
  /\ parsed_elements = <<>>
  /\ raw # <<>>
  /\ parsed_elements' = ParsedElements(raw)
  /\ UNCHANGED chunked
  /\ UNCHANGED <<documents, qdrant, bm25_cache, ing, ret, cleanups>>
  /\ UNCHANGED <<chatvars, scoring>>

\* the chunker is applied to the parsed elements
ChunkParsed ==
  /\ parsed_elements # <<>>
  /\ chunked = <<>>
  /\ chunked' = chunk_elements(parsed_elements)
  /\ UNCHANGED parsed_elements
  /\ UNCHANGED <<documents, qdrant, bm25_cache, ing, ret, cleanups>>
  /\ UNCHANGED <<chatvars, scoring>>

\* the lists of at most MaxParsed elements
RawElements ==
  UNION {[1..n -> [element_type : ElementTypes, tokens : TokenSizes]] :
           n \in 1..MaxParsed}

NextChunk ==
  \/ parsed_elements = <<>> /\ \E raw \in RawElements : ParseElements(raw)
  \/ ChunkParsed

SpecChunk == Init /\ [][NextChunk]_vars

\* ------------------------------------------------------ ranking and scoring
RetrievalResult(chunk_id, dense_score, sparse_score) ==
  [chunk_id |-> chunk_id, dense_score |-> dense_score,
   sparse_score |-> sparse_score]

RankedResult(chunk_id, relevance_score, rank) ==
  [chunk_id |-> chunk_id, relevance_score |-> relevance_score, rank |-> rank]

\* the chunks of the short result lists
ChunkIds == 1..MaxHits

\* cosine similarities of the vector store, in hundredths
DenseScores == {0 - 20, 90}

\* a list names no chunk twice
Distinct(list) ==
  \A i, j \in 1..Len(list) : i # j => list[i].chunk_id # list[j].chunk_id

\* more candidates than the reranker is asked for, best dense score first
LongDense ==
  [i \in 1..(_RERANK_TOP_N + 2) |-> RetrievalResult(i, 100 - 5 * i, 0)]

\* the same chunks in the opposite order, as the lexical index scores them
LongSparse ==
  [i \in 1..(_RERANK_TOP_N + 2) |->
     RetrievalResult(_RERANK_TOP_N + 3 - i, 0, _RERANK_TOP_N + 3 - i)]

\* the outputs of _dense_retrieval: one result per chunk, sorted by
\* dense_score, best first
DenseLists ==
  {list \in UNION {[1..n -> [chunk_id : ChunkIds, dense_score : DenseScores,
                             sparse_score : {0}]] : n \in 0..MaxHits} :
     /\ Distinct(list)
     /\ \A i \in 1..(Len(list) - 1) :
          list[i].dense_score >= list[i + 1].dense_score}
  \cup {LongDense}

\* the outputs of _sparse_retrieval: positive BM25 scores, best first; a
\* result of the lexical index has the default dense_score 0.0
SparseLists ==
  {list \in UNION {[1..n -> [chunk_id : ChunkIds, dense_score : {0},
                             sparse_score : 1..MaxHits]] : n \in 0..MaxHits} :
     /\ Distinct(list)
     /\ \A i \in 1..Len(list) : list[i].sparse_score = Len(list) + 1 - i}
  \cup {LongSparse}

\* the rank of a chunk in a list, from 1 (0: not in the list)
Rank(list, id) ==
  IF \E i \in 1..Len(list) : list[i].chunk_id = id
    THEN CHOOSE i \in 1..Len(list) : list[i].chunk_id = id
    ELSE 0

\* rrf_scores[id]: the sum of 1 / (k + rank) over the lists the chunk is in,
\* as <<numerator, denominator>>
RrfScore(dense, sparse, k, id) ==
  LET d == Rank(dense, id)
      s == Rank(sparse, id)
  IN IF d > 0 /\ s > 0 THEN <<2 * k + d + s, (k + d) * (k + s)>>
     ELSE IF d > 0 THEN <<1, k + d>>
     ELSE IF s > 0 THEN <<1, k + s>>
     ELSE <<0, 1>>

\* comparison of two such sums
Greater(a, b) == a[1] * b[2] > b[1] * a[2]

\* the place of a chunk among the keys of rrf_scores: the dense results
\* first, then the results only the sparse list has
InsertionIndex(dense, sparse, id) ==
  IF Rank(dense, id) > 0 THEN Rank(dense, id)
  ELSE Len(dense) + Cardinality({j \in 1..Rank(sparse, id) :
                                   Rank(dense, sparse[j].chunk_id) = 0})

\* result_map[id]: the dense result with the sparse score merged into it,
\* or the sparse result
ResultMap(dense, sparse, id) ==
  LET d == Rank(dense, id)
      s == Rank(sparse, id)
  IN IF d > 0
       THEN RetrievalResult(id, dense[d].dense_score,
                            IF s > 0 THEN sparse[s].sparse_score
                            ELSE dense[d].sparse_score)
       ELSE sparse[s]

\* the place of a chunk in sorted(rrf_scores, reverse=True): the sort is
\* stable, equal sums keep the insertion order
SortedIndex(dense, sparse, k, id) ==
  LET ids == {dense[i].chunk_id : i \in 1..Len(dense)}
               \cup {sparse[i].chunk_id : i \in 1..Len(sparse)}
      mine == RrfScore(dense, sparse, k, id)
  IN 1 + Cardinality({other \in ids :
           LET theirs == RrfScore(dense, sparse, k, other)
           IN \/ Greater(theirs, mine)
              \/ /\ ~Greater(mine, theirs)
                 /\ InsertionIndex(dense, sparse, other)
                      < InsertionIndex(dense, sparse, id)})

\* _reciprocal_rank_fusion: the _RRF_TOP_N best chunks by RRF sum
_reciprocal_rank_fusion(dense, sparse, k) ==
  LET ids == {dense[i].chunk_id : i \in 1..Len(dense)}
               \cup {sparse[i].chunk_id : i \in 1..Len(sparse)}
  IN [place \in 1..Min(Cardinality(ids), _RRF_TOP_N) |->
        ResultMap(dense, sparse,
                  CHOOSE id \in ids :
                    SortedIndex(dense, sparse, k, id) = place)]

\* the relevance scores of the reranking service, in hundredths of [0, 1]
RelevanceScores == {10, 95}

\* what the cross-encoder makes of the texts: a score per text, here by the
\* residue of the chunk number
Scorings == [0..2 -> RelevanceScores]

Relevance(scoring_of, candidate) == scoring_of[candidate.chunk_id % 3]

\* the response of co.rerank: the top_n documents by relevance, best first,
\* each with its index in the request and its relevance_score
CohereRerank(candidates, scoring_of, top_n) ==
  LET place(i) ==
        1 + Cardinality({j \in 1..Len(candidates) :
              \/ Relevance(scoring_of, candidates[j])
                   > Relevance(scoring_of, candidates[i])
              \/ /\ Relevance(scoring_of, candidates[j])
                      = Relevance(scoring_of, candidates[i])
                 /\ j < i})
  IN [p \in 1..Min(top_n, Len(candidates)) |->
        LET index == CHOOSE i \in 1..Len(candidates) : place(i) = p
        IN [index |-> index,
            relevance_score |-> Relevance(scoring_of, candidates[index])]]

\* _rerank when the service answers: one RankedResult per result of the
\* response, in the order of the response
_rerank(candidates, response) ==
  [rank_idx \in 1..Len(response) |->
     RankedResult(candidates[response[rank_idx].index].chunk_id,
                  response[rank_idx].relevance_score, rank_idx)]

\* variant: the dense score is taken as it is
_fallback_rank_mut(candidates) ==
  [rank_idx \in 1..Min(Len(candidates), _RERANK_TOP_N) |->
     RankedResult(candidates[rank_idx].chunk_id,
                  candidates[rank_idx].dense_score, rank_idx)]

\* _fallback_rank: the first _RERANK_TOP_N candidates, max(dense_score, 0.0)
\* as relevance_score
_fallback_rank(candidates) ==
  [rank_idx \in 1..Min(Len(candidates), _RERANK_TOP_N) |->
     RankedResult(candidates[rank_idx].chunk_id,
                  Max(candidates[rank_idx].dense_score, 0), rank_idx)]

\* the relevance scores of a ranked list
RelevanceOf(ranked) == [i \in 1..Len(ranked) |-> ranked[i].relevance_score]

\* retrieve, steps 1 and 2: the two result lists are fused
Fuse(dense, sparse) ==
  /\ scoring.pc = "idle"
  /\ scoring' = [NoScoring EXCEPT
       !.pc = "rerank", !.dense = dense, !.sparse = sparse,
       !.merged = _reciprocal_rank_fusion(dense, sparse, _RRF_K)]
  /\ UNCHANGED <<documents, qdrant, bm25_cache, ing, ret, cleanups>>
  /\ UNCHANGED <<chatvars, chunkvars>>

\* step 3, _rerank: no candidates give no results; else the service answers
Rerank(scoring_of) ==
  /\ scoring.pc = "rerank"
  /\ scoring' = [scoring EXCEPT
       !.pc = "confidence", !.path = "rerank",
       !.ranked = IF scoring.merged = <<>> THEN <<>>
                  ELSE _rerank(scoring.merged,
                               CohereRerank(scoring.merged, scoring_of,
                                            _RERANK_TOP_N))]
  /\ UNCHANGED <<documents, qdrant, bm25_cache, ing, ret, cleanups>>
  /\ UNCHANGED <<chatvars, chunkvars>>

\* variant: every candidate is returned
RerankFails_mut ==
  /\ scoring.pc = "rerank"
  /\ scoring.merged # <<>>
  /\ scoring' = [scoring EXCEPT
       !.pc = "confidence", !.path = "fallback",
       !.ranked = [i \in 1..Len(scoring.merged) |->
                     RankedResult(scoring.merged[i].chunk_id,
                                  Max(scoring.merged[i].dense_score, 0), i)]]
  /\ UNCHANGED <<documents, qdrant, bm25_cache, ing, ret, cleanups>>
  /\ UNCHANGED <<chatvars, chunkvars>>

\* step 3, _rerank: the call to the service times out or raises
RerankFails ==
  /\ scoring.pc = "rerank"
  /\ scoring.merged # <<>>
  /\ scoring' = [scoring EXCEPT !.pc = "confidence", !.path = "fallback",
                                !.ranked = _fallback_rank(scoring.merged)]
  /\ UNCHANGED <<documents, qdrant, bm25_cache, ing, ret, cleanups>>
  /\ UNCHANGED <<chatvars, chunkvars>>

\* steps 4 and 5: the confidence, and the decision with the turn count and
\* the thresholds of tenant_config
Decide(cfg, turn_count) ==
  /\ scoring.pc = "confidence"
  /\ LET confidence == compute_confidence(RelevanceOf(scoring.ranked))
         d == should_escalate(confidence, turn_count,
                              cfg.max_turns_before_escalation,
                              cfg.escalation_threshold)
     IN scoring' = [scoring EXCEPT
          !.pc = "returned", !.confidence = confidence,
          !.turn_count = turn_count,
          !.max_turns = cfg.max_turns_before_escalation,
          !.escalate_threshold = cfg.escalation_threshold,
          !.should_escalate = d[1], !.escalation_reason = d[2]]
  /\ UNCHANGED <<documents, qdrant, bm25_cache, ing, ret, cleanups>>
  /\ UNCHANGED <<chatvars, chunkvars>>

\* the caller has the RetrievalOutput
ScoringEnd ==
  /\ scoring.pc = "returned"
  /\ scoring' = NoScoring
  /\ UNCHANGED <<documents, qdrant, bm25_cache, ing, ret, cleanups>>
  /\ UNCHANGED <<chatvars, chunkvars>>

\* the numbers of earlier user messages a decision is taken at
TurnCounts == {0, 10}

\* the ranking and scoring of the candidates of one retrieval
NextScoring ==
  \/ \E dense \in DenseLists, sparse \in SparseLists : Fuse(dense, sparse)
  \/ \E scoring_of \in Scorings : Rerank(scoring_of)
  \/ RerankFails
  \/ \E cfg \in TenantConfigs, turn_count \in TurnCounts :
       Decide(cfg, turn_count)
  \/ ScoringEnd

SpecScoring == Init /\ [][NextScoring]_vars

\* one handler at a time: session lifecycle, escalation and webhook delivery
Next ==
  \/ Billing(1)
  \/ EndClear(1)
  \/ EscalateLoad(1)
  \/ RequestCommit(1)
  \/ \E s \in Sessions : used.requests < MaxRequests /\ StartSession(1, s)
  \/ \E s \in Sessions : used.requests < MaxRequests /\ EndSession(1, s)
  \/ \E s \in Sessions, stream \in BOOLEAN :
       used.requests < MaxRequests /\ SendMessage(1, s, stream)
  \/ \E escalate \in BOOLEAN : TurnLoad(1, escalate)
  \/ \E tok \in TokenPairs : \/ TurnSave(1, tok)
                             \/ EscalateClear(1, tok)
  \/ \E reason \in EscalationReasons : EscalateUpdate(1, reason)
  \/ \E url \in BOOLEAN : EscalateEnqueue(1, url)
  \/ \E i \in 1..MaxRequests, ok \in BOOLEAN : \/ HookPost(i, ok)
                                               \/ HookCompensate(i, ok)
  \/ \E i \in 1..MaxRequests : HookWake(i)

Spec == Init /\ [][Next]_vars

\* the event loop runs every webhook task that can take a step: each POST ends
\* within its 10 s timeout and each sleep returns
HookStep(i) ==
  \/ \E ok \in BOOLEAN : HookPost(i, ok) \/ HookCompensate(i, ok)
  \/ HookWake(i)

SpecLive ==
  Init /\ [][Next]_vars /\ \A i \in 1..MaxRequests : WF_vars(HookStep(i))

\* one handler: the branches of a non-streaming turn
NextTurn ==
  \/ Billing(1)
  \/ EndClear(1)
  \/ RequestCommit(1)
  \/ \E s \in Sessions : used.requests < MaxRequests /\ StartSession(1, s)
  \/ \E s \in Sessions : used.requests < MaxRequests /\ EndSession(1, s)
  \/ \E s \in Sessions : used.requests < MaxRequests /\ SendMessage(1, s, FALSE)
  \/ \E raw \in RawOutputs : TurnClassify(1, raw)
  \/ TurnClassifyFails(1)
  \/ \E point_count \in {0, 1}, ranked \in RankedLists, cfg \in TenantConfigs :
       TurnRetrieve(1, point_count, ranked, cfg)
  \/ \E ok \in BOOLEAN : TurnFallback(1, ok)
  \/ \E ok \in BOOLEAN, tok \in TokenPairs : TurnRag(1, ok, tok)
  \/ \E tok \in TokenPairs : \/ TurnSave(1, tok)
                             \/ EscalateClear(1, tok)
  \/ HandlerRaise(1)
  \/ EscalateLoad(1)
  \/ EscalateUpdate(1, loc[1].reason)
  \/ \E url \in BOOLEAN : EscalateEnqueue(1, url)

SpecTurn == Init /\ [][NextTurn]_vars

\* concurrent handlers: metering of non-streaming turns
NextMeter ==
  \/ \E p \in Workers : \/ Billing(p)
                        \/ EndClear(p)
                        \/ RequestCommit(p)
                        \/ TurnLoad(p, FALSE)
  \/ \E p \in Workers, s \in Sessions :
       used.requests < MaxRequests /\ StartSession(p, s)
  \/ \E p \in Workers, s \in Sessions :
       used.requests < MaxRequests /\ EndSession(p, s)
  \/ \E p \in Workers, s \in Sessions :
       used.requests < MaxRequests /\ SendMessage(p, s, FALSE)
  \/ \E p \in Workers, tok \in TokenPairs : TurnSave(p, tok)

SpecMeter == Init /\ [][NextMeter]_vars

\* one session and the turns of one handler that do not escalate: the
\* direct reply and the reply to a query on an empty corpus
NextMemory ==
  \/ RecordInput(1)
  \/ RecordOutput(1)
  \/ RecordCount(1)
  \/ RecordExpire(1)
  \/ RequestCommit(1)
  \/ used.requests < MaxMemoryRequests /\ StartSession(1, 1)
  \/ used.requests < MaxMemoryRequests /\ SendMessage(1, 1, FALSE)
  \/ \E raw \in RawOutputs : TurnClassify(1, raw)
  \/ TurnClassifyFails(1)
  \/ \E ranked \in RankedLists, cfg \in TenantConfigs :
       TurnRetrieve(1, 0, ranked, cfg)
  \/ \E ok \in BOOLEAN : TurnFallback(1, ok)
  \/ TurnSave(1, <<2, 1>>)

SpecMemory == Init /\ [][NextMemory]_vars

\* one handler whose sessions take turns, escalate and end, beside the idle
\* sweeper and the clock
NextClear ==
  \/ Tick
  \/ Billing(1)
  \/ Billing(Sweeper)
  \/ EndClear(1)
  \/ RequestCommit(1)
  \/ \E s \in Sessions : used.requests < MaxRequests /\ StartSession(1, s)
  \/ \E s \in Sessions : used.requests < MaxRequests /\ EndSession(1, s)
  \/ \E s \in Sessions : used.requests < MaxRequests /\ SendMessage(1, s, FALSE)
  \/ \E escalate \in BOOLEAN : TurnLoad(1, escalate)
  \/ TurnSave(1, <<2, 1>>)
  \/ EscalateLoad(1)
  \/ EscalateUpdate(1, "low_retrieval_confidence")
  \/ EscalateEnqueue(1, FALSE)
  \/ EscalateClear(1, <<2, 1>>)
  \/ \E s \in Sessions : SweepUpdate(s)
  \/ SweepSelect
  \/ SweepCommit

SpecClear == Init /\ [][NextClear]_vars

\* the idle sweeper beside one handler that starts and ends sessions
NextSweep ==
  \/ Tick
  \/ Billing(1)
  \/ Billing(Sweeper)
  \/ EndClear(1)
  \/ RequestCommit(1)
  \/ \E s \in Sessions : used.requests < MaxSweepRequests /\ StartSession(1, s)
  \/ \E s \in Sessions : used.requests < MaxSweepRequests /\ EndSession(1, s)
  \/ \E s \in Sessions : \/ SweepUpdate(s)
                         \/ SweepUpdateFails(s)
  \/ SweepSelect
  \/ SweepRedisFails
  \/ SweepInsertFails
  \/ SweepCommit

SpecSweep == Init /\ [][NextSweep]_vars

\* ------------------------------------------------------------- properties
Terminating == {"resolved", "escalated", "timeout"}

RECURSIVE CountTypes(_, _)
CountTypes(evs, types) ==
  IF evs = <<>> THEN 0
  ELSE (IF Head(evs).event_type \in types THEN 1 ELSE 0)
       + CountTypes(Tail(evs), types)

\* no coroutine is at work on session s
Quiet(s) == \A p \in Procs : pc[p] # "idle" => loc[p].sid # s

RECURSIVE SumOver(_, _)
SumOver(S, f) ==
  IF S = {} THEN 0
  ELSE LET q == CHOOSE x \in S : TRUE IN f[q] + SumOver(S \ {q}, f)

\* the record_message calls on s that have passed the given positions
Past(s, positions) == {q \in Procs : loc[q].sid = s /\ pc[q] \in positions}

\* C1: a session's status changes only from active to resolved or from active
\* to escalated; a resolved or escalated session never changes status again.
C1_MonotonicStatus ==
  [][\A s \in Sessions :
       sessions'[s].status # sessions[s].status =>
         /\ sessions[s].status = "active"
         /\ sessions'[s].status \in {"resolved", "escalated"}]_vars

\* C2: at most one BillingEvent of type resolved, escalated or timeout is ever
\* inserted for one session.
C2_BilledOnce ==
  \A s \in Sessions : CountTypes(billing_events[s], Terminating) <= 1

\* C3: once the operation that made a session resolved or escalated is over,
\* the session has a BillingEvent of type resolved, escalated or timeout.
C3_TerminalIsBilled ==
  \A s \in Sessions :
    (sessions[s].status \in {"resolved", "escalated"} /\ Quiet(s)) =>
      CountTypes(billing_events[s], Terminating) >= 1

\* C4: as long as no close_session has deleted the keys of a session, its three
\* counters equal the sums of the arguments of the record_message calls made
\* on it, whatever their interleaving: a call in flight counts for the
\* increments it has already made, and once no call is in flight the counters
\* are the sums over the completed calls and message_count is their number.
C4_RecordAdditive ==
  \A s \in Sessions :
    ~flushed[s] =>
      /\ ToInt(redis_billing[s].input_tokens) =
           metered[s].input_tokens
           + SumOver(Past(s, {"rec_out", "rec_cnt", "rec_expire"}),
                     [q \in Procs |-> loc[q].input_tokens])
      /\ ToInt(redis_billing[s].output_tokens) =
           metered[s].output_tokens
           + SumOver(Past(s, {"rec_cnt", "rec_expire"}),
                     [q \in Procs |-> loc[q].output_tokens])
      /\ ToInt(redis_billing[s].message_count) =
           metered[s].message_count
           + SumOver(Past(s, {"rec_expire"}), [q \in Procs |-> 1])
      /\ (~Recording(s) /\ metered[s].message_count > 0) =>
           redis_billing[s] = metered[s]

\* three record_message calls on one session are over, two of them with tokens
C4_Witness ==
  \E s \in Sessions :
    /\ ~flushed[s]
    /\ ~Recording(s)
    /\ metered[s].message_count = 3
    /\ metered[s].input_tokens >= 4
    /\ redis_billing[s].message_count = 3

\* C5: one close_session call inserts exactly one BillingEvent, of the
\* caller's event type; a missing counter is read as 0, so that the event is
\* zero-count when no key exists; and when no record_message call on the
\* session overlaps the call's reads and no earlier close_session has deleted
\* the keys, its three totals are the sums of the arguments of the
\* record_message calls completed before it.
C5_CloseFlushesMetered ==
  [][\A p \in Procs :
       (pc[p] = "cls_insert" /\ pc'[p] = "cls_del_in") =>
         LET s == loc[p].sid
             e == tx'[p].events[Len(tx'[p].events)]
             totals == [input_tokens |-> e.total_input_tokens,
                        output_tokens |-> e.total_output_tokens,
                        message_count |-> e.total_messages]
         IN /\ Len(tx'[p].events) = Len(tx[p].events) + 1
            /\ \A i \in 1..Len(tx[p].events) : tx'[p].events[i] = tx[p].events[i]
            /\ e.session_id = s
            /\ e.event_type = CloseType(p)
            /\ loc[p].raw_input = Nil => e.total_input_tokens = 0
            /\ loc[p].raw_output = Nil => e.total_output_tokens = 0
            /\ loc[p].raw_count = Nil => e.total_messages = 0
            /\ (loc'[p].clean /\ ~flushed[s]) => totals = metered[s]]_vars

\* a close_session that nothing overlapped has flushed a session of two
\* messages, one of them a turn with tokens
C5_Witness ==
  \E p \in Procs :
    /\ pc[p] = "cls_del_in"
    /\ loc[p].clean
    /\ ~flushed[loc[p].sid]
    /\ Len(tx[p].events) = 1
    /\ tx[p].events[1].total_messages = 2
    /\ tx[p].events[1].total_input_tokens > 0

\* C6: when close_session returns and no record_message call on the session
\* has overlapped its deletes, none of the three billing keys of the session
\* exists.
C6_KeysDeleted ==
  [][\A p \in Procs :
       (pc[p] = "cls_del_cnt" /\ pc'[p] = CloseReturn(p) /\ loc'[p].clean) =>
         /\ redis_billing'[loc[p].sid] = NoKeys
         /\ redis_ttl'[loc[p].sid] = NoKeys]_vars

\* end_session's close_session has returned, undisturbed, on a session whose
\* keys had been written
C6_Witness ==
  \E p \in Procs :
    /\ pc[p] = "end_clear"
    /\ loc[p].clean
    /\ metered[loc[p].sid].message_count >= 2
    /\ redis_billing[loc[p].sid] = NoKeys

\* C7: a sweep selects exactly the sessions that are active with started_at
\* older than the idle threshold; when no step of the sweep fails, each of
\* them ends the sweep resolved, with ended_at set and one more BillingEvent
\* of type timeout, and the sweep changes no other session row and adds no
\* BillingEvent to any other session.
C7_SweepClosesIdle ==
  [][/\ (pc[Sweeper] = "idle" /\ pc'[Sweeper] = "sweep_loop") =>
          loc'[Sweeper].selected =
            {s \in Sessions : /\ sessions[s].exists
                              /\ sessions[s].status = "active"
                              /\ now - sessions[s].started_at
                                   > idle_session_timeout_minutes}
     /\ (pc[Sweeper] = "sweep_loop" /\ pc'[Sweeper] = "idle"
         /\ loc[Sweeper].failed = {}) =>
          \A s \in Sessions :
            IF s \in loc[Sweeper].selected
              THEN /\ sessions'[s].status = "resolved"
                   /\ sessions'[s].ended_at # Nil
                   /\ CountTypes(billing_events'[s], {"timeout"}) =
                        CountTypes(billing_events[s], {"timeout"}) + 1
                   /\ Len(billing_events'[s]) = Len(billing_events[s]) + 1
              ELSE /\ sessions'[s] = sessions[s]
                   /\ billing_events'[s] = billing_events[s]]_vars

\* a sweep without a failure is over: it has closed an idle session and has
\* left alone an active session started within the threshold
C7_Witness ==
  \E s, u \in Sessions :
    /\ pc[Sweeper] = "idle"
    /\ used.sweeps = 1
    /\ used.faults = 0
    /\ sessions[s].status = "resolved"
    /\ sessions[s].ended_at # Nil
    /\ CountTypes(billing_events[s], {"timeout"}) = 1
    /\ sessions[u].exists
    /\ sessions[u].status = "active"
    /\ billing_events[u] = <<>>

\* C8: when a step fails for one session of a sweep, every other session the
\* sweep selected still ends the sweep resolved with its timeout BillingEvent
\* committed.
C8_SweepIsolatesFailures ==
  [][(pc[Sweeper] = "sweep_loop" /\ pc'[Sweeper] = "idle"
      /\ loc[Sweeper].failed # {}) =>
       \A s \in loc[Sweeper].selected \ loc[Sweeper].failed :
         /\ sessions'[s].status = "resolved"
         /\ CountTypes(billing_events'[s], {"timeout"}) =
              CountTypes(billing_events[s], {"timeout"}) + 1]_vars

\* C9: escalate works in strict order.  Until its update step the session
\* row is untouched; the transcript is loaded before that step; no webhook
\* task of the session exists until the status escalated is committed; the
\* memory of the session is still the one the turn loaded until the task has
\* been enqueued; and the step that clears the memory and returns is enabled
\* whatever the state of the webhook task.
C9_EscalateOrder ==
  \A p \in Workers :
    LET s == loc[p].sid
        NoHook == \A i \in 1..Len(hooks) : hooks[i].session_id # s
    IN /\ pc[p] = "esc_load" => loc[p].transcript = Nil
       /\ pc[p] \in {"esc_load", "esc_update"} =>
            /\ sessions[s].status = "active"
            /\ NoHook
            /\ redis_memory[s] = loc[p].memory
       /\ pc[p] \in {"esc_update", "esc_enqueue", "esc_clear"} =>
            loc[p].transcript # Nil
       /\ pc[p] = "esc_enqueue" =>
            /\ sessions[s].status = "escalated"
            /\ NoHook
            /\ redis_memory[s] = loc[p].memory
       /\ pc[p] = "esc_clear" =>
            /\ sessions[s].status = "escalated"
            /\ redis_memory[s] = loc[p].memory
            /\ ENABLED (\E tok \in TokenPairs : EscalateClear(p, tok))

\* escalate has returned on a session that had a memory, and its webhook task
\* has not made its first attempt yet
C9_Witness ==
  \E p \in Workers, i \in 1..Len(hooks) :
    /\ pc[p] = "rec_in"
    /\ loc[p].escalation_required
    /\ loc[p].memory # Nil
    /\ redis_memory[loc[p].sid] = Nil
    /\ sessions[loc[p].sid].status = "escalated"
    /\ hooks[i].session_id = loc[p].sid
    /\ hooks[i].state = "ready"
    /\ hooks[i].posts = 0

\* C10: escalation completes regardless of the delivery.  No failure of a
\* POST attempt or of the compensating insert leaves the webhook task, the
\* last step of escalate never waits for the task, and once escalate has
\* returned the session is escalated and its memory is cleared, whatever the
\* task does.
C10_EscalationCompletes ==
  /\ \A i \in 1..Len(hooks) : ~hooks[i].escaped
  /\ \A p \in Workers :
       /\ pc[p] = "esc_clear" =>
            \A tok \in TokenPairs : ENABLED EscalateClear(p, tok)
       /\ (loc[p].escalation_required /\ pc[p] # "idle") =>
            /\ sessions[loc[p].sid].status = "escalated"
            /\ redis_memory[loc[p].sid] = Nil

\* every attempt has failed and so has the compensating insert; the session
\* is escalated, its memory is cleared and the turn is over
C10_Witness ==
  \E i \in 1..Len(hooks) :
    /\ hooks[i].state = "done"
    /\ ~hooks[i].delivered
    /\ hooks[i].posts = max_retries
    /\ CountTypes(billing_events[hooks[i].session_id],
                  {"escalation_webhook_failed"}) = 0
    /\ sessions[hooks[i].session_id].status = "escalated"
    /\ redis_memory[hooks[i].session_id] = Nil
    /\ Quiet(hooks[i].session_id)

\* the webhook tasks created for session s
HooksOf(s) == {i \in 1..Len(hooks) : hooks[i].session_id = s}

\* the BillingEvents of session s of type escalation_webhook_failed
FailedEvents(s) ==
  {k \in 1..Len(billing_events[s]) :
     billing_events[s][k].event_type = "escalation_webhook_failed"}

C12_DeliveryBounded ==
  /\ [](\A i \in 1..Len(hooks) :
          /\ hooks[i].posts <= max_retries
          /\ hooks[i].posts <= hooks[i].attempt + 1
          /\ hooks[i].delivered => hooks[i].state = "done")
  /\ [][\A i \in 1..Len(hooks) :
          hooks[i].delivered => hooks'[i] = hooks[i]]_vars
  /\ \A i \in 1..MaxRequests :
       (i <= Len(hooks)) ~> (i <= Len(hooks) /\ hooks[i].state = "done")

\* a task has ended after its third attempt, having slept 1 s and 2 s
C12_Witness ==
  \E i \in 1..Len(hooks) :
    /\ hooks[i].state = "done"
    /\ hooks[i].posts = max_retries
    /\ hooks[i].attempt = max_retries - 1
    /\ hooks[i].waits = <<1, 2>>

\* the positions of escalate
InEscalate == {"esc_load", "esc_update", "esc_enqueue", "esc_clear"}

\* the positions of a turn before its branch is decided
Deciding == {"idle", "turn", "retrieve"}

\* C13: a domain-query turn whose retrieval returned results with
\* should_escalate goes through escalate, and from the return of handle_turn
\* to the end of the request its output has escalation_required, the
\* retrieval's reason and the retrieved chunks, the session is escalated with
\* that reason, and the memory of the session is cleared and stays so.
C13_EscalatingTurn ==
  \A p \in Workers :
    LET s == loc[p].sid
    IN /\ (pc[p] \notin Deciding /\ loc[p].retrievals > 0
           /\ loc[p].results # <<>> /\ loc[p].reason # "none") =>
            \/ pc[p] \in InEscalate
            \/ /\ loc[p].escalation_required
               /\ loc[p].output.intent_type = "domain_query"
               /\ loc[p].output.escalation_reason = loc[p].reason
               /\ loc[p].output.escalation_reason \in EscalationReasons
               /\ loc[p].output.source_chunks = loc[p].results
               /\ sessions[s].status = "escalated"
               /\ sessions[s].escalation_reason = loc[p].reason
               /\ redis_memory[s] = Nil
               /\ tx[p].messages + messages[s] = loc[p].before.messages + 2
       /\ pc[p] \in InEscalate =>
            loc[p].results # <<>> /\ loc[p].reason # "none"

\* the second turn of a session escalates for max_turns_exceeded: the request
\* is about to commit, the memory the first turn left is gone
C13_Witness ==
  \E p \in Workers :
    /\ pc[p] = "commit"
    /\ loc[p].escalation_required
    /\ loc[p].output.escalation_reason = "max_turns_exceeded"
    /\ loc[p].output.source_chunks = <<90, 50>>
    /\ loc[p].before.memory = 1
    /\ redis_memory[loc[p].sid] = Nil
    /\ sessions[loc[p].sid].status = "escalated"

\* C14: a domain-query turn whose retrieval returned no result has called
\* retrieval once, never enters escalate, leaves the session active, and
\* returns intent_type conversational with escalation_required false,
\* whatever should_escalate, the turn count and the threshold are.
C14_EmptyCorpus ==
  \A p \in Workers :
    (pc[p] \notin Deciding /\ loc[p].retrievals > 0 /\ loc[p].results = <<>>) =>
      /\ loc[p].retrievals = 1
      /\ pc[p] \notin InEscalate
      /\ ~loc[p].escalation_required
      /\ sessions[loc[p].sid].status = "active"
      /\ HooksOf(loc[p].sid) = {}
      /\ pc[p] \notin {"conv", "turn_save"} =>
           /\ loc[p].output.intent_type = "conversational"
           /\ loc[p].output.escalation_reason = "none"

\* the collection has points but nothing is ranked: confidence 0 is under the
\* threshold, and the turn has returned as a conversational one
C14_Witness ==
  \E p \in Workers :
    /\ pc[p] = "rec_in"
    /\ loc[p].intent = "domain_query"
    /\ loc[p].retrievals = 1
    /\ loc[p].results = <<>>
    /\ loc[p].reason = "low_retrieval_confidence"
    /\ loc[p].output.intent_type = "conversational"
    /\ sessions[loc[p].sid].status = "active"

\* C15: a turn that handle_turn classified conversational or out_of_scope
\* calls neither retrieval nor escalate; when it returns, escalation_required
\* is false, the memory holds the loaded turns and this one, and two messages
\* are persisted for it.
C15_DirectTurn ==
  \A p \in Workers :
    LET s == loc[p].sid
    IN (loc[p].classified # "none"
        /\ loc[p].intent \in {"conversational", "out_of_scope"}) =>
         /\ loc[p].retrievals = 0
         /\ pc[p] \notin InEscalate \cup {"retrieve", "conv", "rag", "raise"}
         /\ sessions[s].status = "active"
         /\ HooksOf(s) = {}
         /\ pc[p] # "turn_save" =>
              /\ ~loc[p].escalation_required
              /\ loc[p].output.intent_type = loc[p].intent
              /\ redis_memory[s] = TurnCount(loc[p].before.memory) + 1
              /\ tx[p].messages = 2
              /\ messages[s] = loc[p].before.messages

\* an out_of_scope turn after an earlier turn of the session has returned
C15_Witness ==
  \E p \in Workers :
    /\ pc[p] = "rec_in"
    /\ loc[p].intent = "out_of_scope"
    /\ loc[p].before.memory = 1
    /\ redis_memory[loc[p].sid] = 2
    /\ tx[p].messages = 2
    /\ messages[loc[p].sid] = 2

\* C16: when the combined call fails or no intent is recognised in its
\* output, the intent is conversational, the response is the static greeting,
\* and the turn appends to the memory and persists its two messages.
C16_ClassifyFallback ==
  \A p \in Workers :
    loc[p].classified \in {"failed", "unparsed"} =>
      /\ loc[p].intent = "conversational"
      /\ loc[p].reply = "static"
      /\ pc[p] \notin {"turn_save", "idle"} =>
           /\ redis_memory[loc[p].sid] = TurnCount(loc[p].before.memory) + 1
           /\ tx[p].messages = 2

\* C17: when the RAG composition call fails the exception leaves the turn:
\* no reply is produced, and nothing of the turn is in the memory, among the
\* messages (pending or committed) or in the billing counters, then or after
\* the request has ended.
C17_RagFailureSurfaces ==
  [][\A p \in Workers :
       LET s == loc[p].sid
       IN /\ pc'[p] = "raise" =>
               /\ loc'[p].reply = "failed"
               /\ ~loc'[p].escalation_required
               /\ redis_memory'[s] = loc'[p].before.memory
               /\ messages'[s] = loc'[p].before.messages
               /\ tx'[p].messages = 0
               /\ redis_billing'[s] = loc'[p].before.billing
          /\ (pc[p] = "raise" /\ pc'[p] # "raise") =>
               /\ pc'[p] = "idle"
               /\ redis_memory' = redis_memory
               /\ messages' = messages
               /\ redis_billing' = redis_billing
               /\ metered' = metered
               /\ billing_events' = billing_events
               /\ tx'[p] = NoTx]_vars

\* the composition call of the second turn of a session has failed
C17_Witness ==
  \E p \in Workers :
    /\ pc[p] = "raise"
    /\ loc[p].results # <<>>
    /\ loc[p].before.memory = 1
    /\ redis_memory[loc[p].sid] = 1
    /\ messages[loc[p].sid] = 2
    /\ redis_billing[loc[p].sid].message_count = 2

\* C18: the status of a document only changes from processing to ready or from
\* processing to failed; a document that is ready or failed keeps its status,
\* whatever step of the run fails.
C18_StatusMachine ==
  [][\A d \in Docs :
       documents'[d].status # documents[d].status =>
         /\ documents[d].status = "processing"
         /\ documents'[d].status \in {"ready", "failed"}]_vars

\* C19: when run returns, the document is ready, its chunk_count is the number
\* of chunks the chunk stage emitted, every point built for it is in the
\* collection, and the BM25 cache key was deleted when the status was already
\* ready; the document stays so after the background task has ended.
C19_IngestSuccess ==
  \A d \in Docs :
    /\ ing[d].pc = "returned" =>
         /\ documents[d].status = "ready"
         /\ documents[d].chunk_count = ing[d].emitted
         /\ documents[d].error_message = None
         /\ PointsOf(d) = {ing[d].points[i] : i \in 1..Len(ing[d].points)}
         /\ ing[d].total = Cardinality(PointsOf(d))
         /\ ing[d].invalidated = "ready"
    /\ ing[d].result = "returned" =>
         /\ documents[d].status = "ready"
         /\ documents[d].chunk_count # Nil

\* a run has returned for two chunks and six points, the cache key is gone
C19_Witness ==
  \E d \in Docs :
    /\ ing[d].pc = "returned"
    /\ ing[d].emitted = 2
    /\ Cardinality(PointsOf(d)) = 6
    /\ documents[d].chunk_count = 2
    /\ documents[d].status = "ready"
    /\ bm25_cache[_bm25_cache_key(documents[d].tenant_id)] = {}

\* C20: a run that an exception of the parse, chunk, enrich or
\* embed-and-store step has left ends by raising IngestionError for that
\* exception, whether or not the write of status failed succeeded; when the
\* write succeeded the document is failed with the error message stored, and
\* when it did not the run raises the same IngestionError and the row is as
\* it was.
C20_FailureReported ==
  \A d \in Docs :
    /\ ing[d].pc = "except" => ing[d].error # "none"
    /\ (ing[d].pc = "raised" /\ ing[d].error \in Stages) =>
         /\ ing[d].result = "IngestionError"
         /\ ing[d].cause = ing[d].error
         /\ ing[d].written =>
              /\ documents[d].status = "failed"
              /\ documents[d].error_message = ing[d].error
         /\ ~ing[d].written =>
              /\ documents[d].status = "processing"
              /\ documents[d].error_message = None
    /\ ing[d].result = "returned" => ing[d].error = "none"

\* the parse step has failed and so has the write of status failed: the run
\* has raised IngestionError for the parse error
C20_Witness ==
  \E d \in Docs :
    /\ ing[d].pc = "raised"
    /\ ing[d].error = "parse"
    /\ ~ing[d].written
    /\ ing[d].result = "IngestionError"
    /\ ing[d].cause = "parse"
    /\ documents[d].status = "processing"

\* C21: failures of single chunks never fail the ingestion: the run does not
\* enter its except clause, the points built for a chunk are none when its
\* raw embedding failed and else raw plus the summary and hypothetical ones
\* whose metadata exists and whose embedding succeeded, and the run that
\* returns leaves the document ready
C21_PerChunkFailures ==
  \A d \in Docs :
    /\ ing[d].pc \notin {"except", "raised"}
    /\ ing[d].pc \in {"upsert", "mark_ready", "invalidate", "returned"} =>
         \A c \in 1..ing[d].chunks :
           /\ "raw" \notin ing[d].embedded[c] => ing[d].built[c] = {}
           /\ "raw" \in ing[d].embedded[c] =>
                ing[d].built[c] =
                  {"raw"} \cup {v \in {"summary", "hypothetical"} :
                                  /\ v \in ing[d].embedded[c]
                                  /\ \/ v = "summary" /\ ing[d].meta[c].summary
                                     \/ /\ v = "hypothetical"
                                        /\ ing[d].meta[c].questions # "none"}
    /\ ing[d].pc = "returned" => documents[d].status = "ready"

\* C22: retrieve never raises, whichever of the calls it makes fails: the
\* collection check, the query embedding, the vector search, the read and
\* the write of the lexical index, the scroll, the rerank
C22_RetrieveNeverRaises == ret.pc # "raised"

\* C23: a retrieval of a tenant holds and returns no payload of another
\* tenant, whatever the other tenants ingested, deleted and retrieved, and
\* whatever the lexical index cache holds
C23_TenantIsolation ==
  \A pt \in ret.dense \cup ret.sparse \cup ret.results :
    pt.tenant_id = ret.tenant_id

\* a retrieval returned results of dense and of sparse origin to a tenant
\* while the other tenant has points and a cached lexical index
C23_Witness ==
  /\ ret.pc = "returned"
  /\ ret.results # {}
  /\ ret.dense # {}
  /\ ret.sparse # {}
  /\ \E other \in Tenants \ {ret.tenant_id} :
       /\ qdrant[_collection_name(other)] # {}
       /\ bm25_cache[_bm25_cache_key(other)] # {}

\* C24: when an ingestion of document d with version v has succeeded, every
\* point of d that is marked latest carries version v, also when points of
\* an earlier version or of an earlier failed run exist
C24_LatestVersion ==
  \A d \in Docs :
    ing[d].pc = "returned" =>
      \A pt \in PointsOf(d) :
        pt.is_latest_version => pt.document_version = ing[d].version

\* C25: the memory of a session holds at most the last window_size turns
C25_MemoryWindow ==
  \A s \in Sessions :
    redis_memory[s] # Nil => redis_memory[s] <= window_size

\* C26: once a session has ended (ended by request or closed by the idle
\* sweep) or has escalated, and the operation that terminated it has
\* finished, the session has no memory
C26_MemoryCleared ==
  \A s \in Sessions :
    /\ sessions[s].exists
    /\ sessions[s].status \in Terminating
    /\ Quiet(s)
    => redis_memory[s] = Nil

\* C27: the turns of one session are serial also when two chat requests
\* overlap: when no request is at work on an active session, its memory
\* holds one entry per turn whose messages were stored, none is lost
C27_SerialTurns ==
  \A s \in Sessions :
    /\ sessions[s].exists
    /\ sessions[s].status = "active"
    /\ Quiet(s)
    => 2 * TurnCount(redis_memory[s]) = messages[s]

\* the elements whose whole text is inside a chunk
WholeIn(chunk) ==
  {chunk.text[k].el : k \in {j \in 1..Len(chunk.text) :
                               chunk.text[j].el # 0 /\ chunk.text[j].whole}}

\* the elements that have tokens inside a chunk
PartlyIn(chunk) ==
  {chunk.text[k].el : k \in {j \in 1..Len(chunk.text) : chunk.text[j].el # 0}}

\* the tolerated number of tokens of a chunk: the maximum and a tenth
Tolerated == _MAX_CHUNK_TOKENS + _MAX_CHUNK_TOKENS \div 10

\* the chunk is one Table element
SingleTable(chunk) ==
  /\ Len(chunk.text) = 1
  /\ chunk.text[1].el # 0
  /\ chunk.text[1].whole
  /\ parsed_elements[chunk.text[1].el].element_type = "Table"

\* the chunk is an unsplit block of type Table: a Table, alone or merged
\* with the Title before it
TableBlock(chunk) ==
  /\ chunk.element_type = "Table"
  /\ PartlyIn(chunk) = WholeIn(chunk)
  /\ \E i \in WholeIn(chunk) :
       /\ parsed_elements[i].element_type = "Table"
       /\ WholeIn(chunk) \subseteq {i - 1, i}
       /\ \A j \in WholeIn(chunk) \ {i} :
            parsed_elements[j].element_type = "Title"

\* C28 as stated: every chunk has at most 550 tokens, except the chunk that
\* is a single Table element
C28_TokenLimit ==
  \A k \in 1..Len(chunked) :
    chunked[k].token_count <= Tolerated \/ SingleTable(chunked[k])

\* C28, amended: every chunk has at most 550 tokens, except the chunk that
\* is an unsplit Table block, the Table alone or with the Title merged to it
C28_TokenLimitOrTableBlock ==
  \A k \in 1..Len(chunked) :
    chunked[k].token_count <= Tolerated \/ TableBlock(chunked[k])

\* a text over the maximum was cut into windows, the first of them full,
\* and a Table over the tolerated size is a chunk
C28_Witness ==
  /\ \E k \in 1..Len(chunked) :
       /\ chunked[k].token_count = _MAX_CHUNK_TOKENS
       /\ PartlyIn(chunked[k]) # WholeIn(chunked[k])
  /\ \E k \in 1..Len(chunked) :
       /\ SingleTable(chunked[k])
       /\ chunked[k].token_count > Tolerated

\* element i is a Title immediately followed by an element that is none
TitleWithNext(i) ==
  /\ i + 1 <= Len(parsed_elements)
  /\ parsed_elements[i].element_type = "Title"
  /\ parsed_elements[i + 1].element_type # "Title"

\* one chunk has the whole text of each of the elements
InOneChunk(els) ==
  \E k \in 1..Len(chunked) : els \subseteq WholeIn(chunked[k])

C30_ListRuns ==
  chunked # <<>> =>
    \A i \in 1..Len(parsed_elements), j \in 1..Len(parsed_elements) :
      /\ i <= j
      /\ \A k \in i..j : parsed_elements[k].element_type = "ListItem"
      => InOneChunk(i..j)

\* a close_session call on session s is in progress
Closing(s) ==
  \E q \in Procs :
    /\ loc[q].sid = s
    /\ pc[q] \in {"cls_rd_in", "cls_rd_out", "cls_rd_cnt", "cls_insert",
                  "cls_del_in", "cls_del_out", "cls_del_cnt"}

\* C33: once a close_session of a session has read the counters, inserted
\* its event and deleted the keys, no record_message increments a counter
\* of that session any more, whatever the interleaving of the handlers
C33_NoLateRecord ==
  [][\A p \in Procs :
       (pc[p] \in {"rec_in", "rec_out", "rec_cnt"} /\ pc'[p] # pc[p])
         => ~(flushed[loc[p].sid] /\ ~Closing(loc[p].sid))]_vars

\* C34: when the handlers are idle, total_messages of the terminating event
\* of a session is the number of chat turns stored for it (two messages a
\* turn)
C34_TotalMessages ==
  \A s \in Sessions :
    ((\A p \in Procs : pc[p] = "idle") /\ billing_events[s] # <<>>)
      => 2 * billing_events[s][1].total_messages = messages[s]

\* C37: a webhook task whose attempts have all failed has slept 1, 2 and 4
\* seconds, in that order, one sleep after each failed attempt
C37_BackoffWaits ==
  \A i \in 1..Len(hooks) :
    (hooks[i].posts = max_retries /\ ~hooks[i].delivered)
      => hooks[i].waits = backoff_seconds

\* C31: the decision is (confidence < escalate_threshold) or (turn_count >=
\* max_turns), with the threshold of the tenant's configuration; below the
\* turn limit it is exactly confidence < threshold; the reason is
\* low_retrieval_confidence whenever the confidence is below the threshold,
\* also at the turn limit, and max_turns_exceeded otherwise
C31_EscalationDecision ==
  scoring.pc = "returned" =>
    LET low == scoring.confidence < scoring.escalate_threshold
        late == scoring.turn_count >= scoring.max_turns
    IN /\ scoring.escalate_threshold \in
            {cfg.escalation_threshold : cfg \in TenantConfigs}
       /\ scoring.should_escalate = (low \/ late)
       /\ ~late => (scoring.should_escalate = low)
       /\ scoring.escalation_reason =
            IF low THEN "low_retrieval_confidence"
            ELSE IF late THEN "max_turns_exceeded"
            ELSE "none"

\* a decision at the turn limit with a confidence below the threshold
C31_Witness ==
  /\ scoring.pc = "returned"
  /\ scoring.ranked # <<>>
  /\ scoring.confidence < scoring.escalate_threshold
  /\ scoring.turn_count >= scoring.max_turns
  /\ scoring.escalation_reason = "low_retrieval_confidence"

\* C32: the confidence of every result list retrieval produces, reranked or
\* fallback-ranked, lies in [0, 1], and the confidence of no results is 0
C32_ConfidenceRange ==
  scoring.pc = "returned" =>
    /\ scoring.confidence >= 0
    /\ scoring.confidence <= 10000
    /\ scoring.ranked = <<>> => scoring.confidence = 0

\* a fallback ranking whose first candidate has a negative dense score
C32_Witness ==
  /\ scoring.pc = "returned"
  /\ scoring.path = "fallback"
  /\ scoring.merged[1].dense_score < 0
  /\ scoring.confidence = 0

\* C38: when the reranker fails, retrieve goes on with the first
\* _RERANK_TOP_N candidates of the fusion, in the order of their RRF sums,
\* each with its dense score, or 0 if that is negative, as relevance_score
C38_FallbackRank ==
  (scoring.pc \in {"confidence", "returned"} /\ scoring.path = "fallback") =>
    /\ Len(scoring.ranked) = Min(_RERANK_TOP_N, Len(scoring.merged))
    /\ \A i \in 1..Len(scoring.ranked) :
         /\ scoring.ranked[i].chunk_id = scoring.merged[i].chunk_id
         /\ scoring.ranked[i].relevance_score =
              IF scoring.merged[i].dense_score < 0 THEN 0
              ELSE scoring.merged[i].dense_score
    /\ \A i, j \in 1..Len(scoring.merged) :
         i < j => ~Greater(RrfScore(scoring.dense, scoring.sparse, _RRF_K,
                                    scoring.merged[j].chunk_id),
                           RrfScore(scoring.dense, scoring.sparse, _RRF_K,
                                    scoring.merged[i].chunk_id))

\* the reranker failed on more candidates than it was asked to return
C38_Witness ==
  /\ scoring.pc = "returned"
  /\ scoring.path = "fallback"
  /\ Len(scoring.merged) > _RERANK_TOP_N
  /\ Len(scoring.ranked) = _RERANK_TOP_N

\* C40: the list the confidence is computed from is sorted by
\* relevance_score, best first, on the rerank path and on the fallback path
C40_TopIsMaximum ==
  scoring.pc = "returned" =>
    \A i \in 1..(Len(scoring.ranked) - 1) :
      scoring.ranked[i].relevance_score
        >= scoring.ranked[i + 1].relevance_score

\* C36: once a document is deleted and its vector cleanup has purged its
\* points, the BM25 cache entry of its tenant, which every later retrieval
\* scores against, holds no chunk of the document
C36_DeletedLeaveIndex ==
  \A d \in Docs :
    (/\ documents[d].exists
     /\ ~documents[d].is_active
     /\ d \notin cleanups
     /\ PointsOf(d) = {})
      => \A pt \in bm25_cache[_bm25_cache_key(documents[d].tenant_id)] :
           pt.document_id # d

\* C35: a retrieval that started after the ingestion of a document had
\* returned (status ready, cache key deleted) scores its query against an
\* index that holds the raw chunks of that document, if it is not deleted
C35_IndexFresh ==
  ret.pc = "rerank" =>
    \A d \in ret.ready :
      documents[d].is_active =>
        {pt \in PointsOf(d) : pt.vector_type = "raw"} \subseteq ret.entry

====
